---- MODULE Spec2Model ----
(***************************************************************************)
(* Transfer pipeline of zkbob-cloud: transfer intake (ZkBobCloud::transfer), *)
(* the submit worker (send_worker.rs), the confirm worker                    *)
(* (status_worker.rs), the Tasks column of the cloud store (cloud/db.rs),    *)
(* the two rsmq work queues and the relayer's jobs.                          *)
(*                                                                           *)
(* Time is abstracted: a queue message that is still in its queue can be     *)
(* received at any moment (its delay or visibility window has elapsed).      *)
(***************************************************************************)
EXTENDS Integers, Sequences, FiniteSets, TLC

\* ------------------------------------------------------------------ bounds

\* transfer() calls while the workers run
MaxCalls == 1
\* concurrent or successive transfer() calls when intake is taken alone
MaxIntakeCalls == 3
\* largest plan get_tx_parts returns
MaxParts == 2
\* failed operations (store, queue, account, prover, relayer transport) and
\* process restarts in one behaviour
MaxFaults == 1
\* the same, where retries are followed to their end
RetryFaults == 3
\* tasks a worker has spawned and not finished
MaxTasks == 2
\* send_worker.max_attempts / status_worker.max_attempts of the configuration
max_attempts == 1
\* top-level operations on accounts in one behaviour
MaxOps == 3
\* records in the relayer's pool, the largest limit asked for, and the
\* hashes a pool record may carry
MaxPool == 3
\* records the pool mines for the synced account, and the operations syncing it
MaxMined == 2
MaxSyncers == 2
MaxLimit == 3
MaxHash == 2
\* usable notes of the planned account, and the largest note, balance, amount
\* and fee; notes are dust (1 or 2) or large (MaxNote)
MaxNotes == 7
MaxNote == 13
MaxBalance == 1
MaxAmount == 2
MaxFee == 7
\* note indexes of a memo
MaxIndex == 3
\* order of the field Fr that Num<Fr> computes in, scaled down
FieldOrder == 1009

\* the records of one history call
MaxTxs == 3

\* the largest fee of one history record
MaxTxFee == 2

\* the transactions of one sync
MaxBatch == 2

\* ------------------------------------------------------------- identifiers

\* Request ids are character sequences, so that contains('.') and the
\* "<request_id>.<i>" format are computed and not assumed.
RequestIds == { <<"a">>, <<"a", ".", "0">> }

Digits == <<"0", "1", "2", "3", "4", "5", "6", "7", "8", "9">>

RECURSIVE Decimal(_)
Decimal(i) == IF i < 10 THEN <<Digits[i + 1]>>
              ELSE Decimal(i \div 10) \o <<Digits[(i % 10) + 1]>>

\* format!("{}.{}", &request.id, i)
PartId(rid, i) == rid \o <<".">> \o Decimal(i)

ContainsDotNever(id) == FALSE

\* request.id.contains('.')
ContainsDot(id) == \E k \in 1..Len(id) : id[k] = "."

Keys == RequestIds \cup { PartId(r, i) : r \in RequestIds, i \in 0..(MaxParts - 1) }

\* Option::None of depends_on
NoKey == <<>>
\* Option::None of job_id and tx_hash
NoJob == 0

\* ------------------------------------------------------------------- rows

NoRow == [kind |-> "none"]

TaskRow(rid, n) ==
    [kind |-> "task", request_id |-> rid, parts |-> [i \in 1..n |-> PartId(rid, i - 1)]]

\* the TransferPart transfer() builds for index i of a plan
NewPart(rid, i) ==
    [kind |-> "part", id |-> PartId(rid, i), request_id |-> rid,
     status |-> "New", err |-> "", job_id |-> NoJob, tx_hash |-> NoJob,
     depends_on |-> IF i > 0 THEN PartId(rid, i - 1) ELSE NoKey, attempt |-> 0]

IsPart(row) == row.kind = "part"

\* TransferStatus::is_final
is_final(status) == status \in {"Done", "Failed"}

\* Db::task_exists: any value under the key in the Tasks column
task_exists(d, id) == d[id] # NoRow

\* Db::get_part: the row under the key, an error when absent or not a part
get_part(d, id) == IF d[id].kind = "part" THEN d[id] ELSE NoRow

\* Db::save_part
save_part(d, part) == [d EXCEPT ![part.id] = part]

save_task_torn(d, rid, n) == [d EXCEPT ![rid] = TaskRow(rid, n)]

\* Db::save_task: the task row and every part row in one store transaction
save_task(d, rid, n) ==
    [k \in Keys |->
        IF k = rid THEN TaskRow(rid, n)
        ELSE IF \E i \in 0..(n - 1) : k = PartId(rid, i)
             THEN NewPart(rid, CHOOSE i \in 0..(n - 1) : k = PartId(rid, i))
             ELSE d[k]]

\* ------------------------------------------------------------------ state

VARIABLES
    db,          \* Tasks column: key -> row
    txIndex,     \* tx_hash -> request_id index, as the set of indexed hashes
    sendQ,       \* messages of the "send" queue
    statusQ,     \* messages of the "status" queue
    sendTasks,   \* submit worker: redis id in in_progress -> its spawned task
    statusTasks, \* confirm worker: redis id in in_progress -> its spawned task
    jobs,        \* relayer: job id -> job state
    calls,       \* transfer() calls: position and result
    faults,      \* store errors, queue errors and restarts so far
    budget,      \* how many such failures a behaviour may have
    \* account registry
    accountRows, \* Accounts column: the ids that have a row
    accountDirs, \* the ids whose account directory exists on disk
    accounts,    \* ZkBobCloud::accounts: id -> loaded instance, 0 for no entry
    ops,         \* top-level operations on accounts: position, handle, result
    cleanups,    \* tasks spawned by AccountCleanup::drop and not yet run: id -> count
    \* relayer cache
    pool,        \* the relayer's pool: record k has index k * (OUT + 1)
    cache,       \* relayer_cache Transactions column: key -> record
    txCall,      \* the transactions() call in progress or last returned
    \* transfer planner
    planIn,      \* account state and arguments of get_tx_parts
    planOut,     \* what get_tx_parts returned
    planMax,     \* what max_transfer_amount returned
    planFee,     \* what calculate_fee returned
    \* functions on values
    fnIn,        \* the value a function is called on
    fnOut,       \* what it returned
    \* concurrent syncs of one account
    mined,       \* how many records the pool has mined; record k has index (k - 1) * (OUT + 1)
    acct,        \* the account's state: the tree's next_index, how often each record was applied, the memos stored
    syncers      \* the operations that sync the account: position, index read and batch fetched

pipelineVars == <<db, txIndex, sendQ, statusQ, sendTasks, statusTasks, jobs, calls, faults, budget>>

registryVars == <<accountRows, accountDirs, accounts, ops, cleanups>>

cacheVars == <<pool, cache, txCall>>

planVars == <<planIn, planOut, planMax, planFee>>

fnVars == <<fnIn, fnOut>>

syncVars == <<mined, acct, syncers>>

vars == <<pipelineVars, registryVars, cacheVars, planVars, fnVars, syncVars>>

\* what the actions of one component leave alone
notPipeline == <<registryVars, cacheVars, planVars, fnVars, syncVars>>

notRegistry == <<pipelineVars, cacheVars, planVars, fnVars, syncVars>>

notCache == <<pipelineVars, registryVars, planVars, fnVars, syncVars>>

notPlan == <<pipelineVars, registryVars, cacheVars, fnVars, syncVars>>

notFn == <<pipelineVars, registryVars, cacheVars, planVars, syncVars>>

notSync == <<pipelineVars, registryVars, cacheVars, planVars, fnVars>>

Calls == DOMAIN calls

\* every message id rsmq may hand out; enough for every message alive at once
MsgIds == 1..(2 * MaxIntakeCalls * MaxParts + MaxFaults + 1)

UsedMsgIds == { m.mid : m \in sendQ \cup statusQ } \cup DOMAIN sendTasks \cup DOMAIN statusTasks

\* rsmq message ids are unique; a fresh one is any id nothing refers to
FreshMid == CHOOSE n \in MsgIds : n \notin UsedMsgIds /\ \A k \in MsgIds : k < n => k \in UsedMsgIds

Message(mid, id) == [mid |-> mid, id |-> id]

\* Queue::send
queue_send(q, id) == q \cup {Message(FreshMid, id)}

\* Queue::delete
queue_delete(q, mid) == { m \in q : m.mid # mid }

CanFail == faults < budget

IdleCall == [pc |-> "idle", id |-> NoKey, n |-> 0, i |-> 0, result |-> ""]

Returned(c, res) == [calls EXCEPT ![c].pc = "done", ![c].result = res]

\* transfer() holds send_queue.write() for its whole enqueue loop
SendQueueLocked == \E c \in Calls : calls[c].pc = "enqueue" /\ calls[c].i > 0

\* ------------------------------------------------- account registry, data

AccountIds == {"a1", "a2"}

NoAccount == ""

IdleOp == [kind |-> "none", pc |-> "idle", id |-> NoAccount, handle |-> 0, result |-> ""]

\* --------------------------------------------------- relayer cache, data

\* OUT + 1, the distance of two pool records' indexes
TxStep == 128

CacheKeys == { k * TxStep : k \in 0..(MaxPool - 1) }

NoTx == [index |-> 0 - 1, tx_hash |-> 0, optimistic |-> FALSE]

IdleTxCall ==
    [pc |-> "idle", offset |-> 0, limit |-> 0, with_optimistic |-> FALSE,
     cached |-> <<>>, result |-> <<>>]

\* ------------------------------------------------ transfer planner, data

NoPlan == [kind |-> "none"]

\* the other components before anything has used them
RegistryIdle ==
    /\ accountRows = {}
    /\ accountDirs = {}
    /\ accounts = [a \in AccountIds |-> 0]
    /\ ops = [o \in 1..MaxOps |-> IdleOp]
    /\ cleanups = [a \in AccountIds |-> 0]

CacheIdle ==
    /\ pool = <<>>
    /\ cache = [k \in CacheKeys |-> NoTx]
    /\ txCall = IdleTxCall

PlanIdle ==
    /\ planIn = NoPlan
    /\ planOut = NoPlan
    /\ planMax = NoPlan
    /\ planFee = NoPlan

FnIdle ==
    /\ fnIn = NoPlan
    /\ fnOut = NoPlan

IdleSyncer == [pc |-> "idle", account_index |-> 0, txs |-> <<>>]

SyncIdle ==
    /\ mined = 0
    /\ acct = [next_index |-> 0, applied |-> [k \in 1..MaxMined |-> 0], memos |-> {}]
    /\ syncers = [o \in 1..MaxSyncers |-> IdleSyncer]

PipelineIdle ==
    /\ db = [k \in Keys |-> NoRow]
    /\ txIndex = {}
    /\ sendQ = {}
    /\ statusQ = {}
    /\ sendTasks = <<>>
    /\ statusTasks = <<>>
    /\ jobs = <<>>
    /\ calls = [c \in 1..MaxCalls |-> IdleCall]
    /\ faults = 0
    /\ budget = MaxFaults

Init ==
    /\ db = [k \in Keys |-> NoRow]
    /\ txIndex = {}
    /\ sendQ = {}
    /\ statusQ = {}
    /\ sendTasks = <<>>
    /\ statusTasks = <<>>
    /\ jobs = <<>>
    /\ calls = [c \in 1..MaxCalls |-> IdleCall]
    /\ faults = 0
    /\ budget = MaxFaults
    /\ RegistryIdle /\ CacheIdle /\ PlanIdle /\ FnIdle /\ SyncIdle

\* the same, with the worker threads not started and more callers
IntakeInit ==
    /\ db = [k \in Keys |-> NoRow]
    /\ txIndex = {}
    /\ sendQ = {}
    /\ statusQ = {}
    /\ sendTasks = <<>>
    /\ statusTasks = <<>>
    /\ jobs = <<>>
    /\ calls = [c \in 1..MaxIntakeCalls |-> IdleCall]
    /\ faults = 0
    /\ budget = MaxFaults
    /\ RegistryIdle /\ CacheIdle /\ PlanIdle /\ FnIdle /\ SyncIdle

\* --------------------------------------------------------- transfer intake

\* transfer(), up to and including the task_exists read
TransferCheck(c, rid) ==
    /\ calls[c].pc = "idle"
    /\ \A b \in Calls : b < c => calls[b].pc # "idle"
    /\ \/ /\ ContainsDot(rid)
          /\ calls' = [calls EXCEPT ![c] = [IdleCall EXCEPT !.pc = "done", !.id = rid,
                                                           !.result = "InvalidTransactionId"]]
          /\ UNCHANGED faults
       \/ /\ ~ContainsDot(rid)
          /\ task_exists(db, rid)
          /\ calls' = [calls EXCEPT ![c] = [IdleCall EXCEPT !.pc = "done", !.id = rid,
                                                           !.result = "DuplicateTransactionId"]]
          /\ UNCHANGED faults
       \/ /\ ~ContainsDot(rid)
          /\ ~task_exists(db, rid)
          /\ calls' = [calls EXCEPT ![c] = [IdleCall EXCEPT !.pc = "checked", !.id = rid]]
          /\ UNCHANGED faults
       \/ /\ ~ContainsDot(rid)
          /\ CanFail
          /\ faults' = faults + 1
          /\ calls' = [calls EXCEPT ![c] = [IdleCall EXCEPT !.pc = "done", !.id = rid,
                                                           !.result = "DataBaseReadError"]]
    /\ UNCHANGED <<db, txIndex, sendQ, statusQ, sendTasks, statusTasks, jobs>>
    /\ UNCHANGED <<budget, notPipeline>>

\* transfer(): get_account, sync, get_tx_parts, then save_task
TransferSave(c) ==
    /\ calls[c].pc = "checked"
    /\ \/ /\ CanFail
          /\ faults' = faults + 1
          /\ calls' = Returned(c, "PlanError")
          /\ UNCHANGED db
       \/ /\ CanFail
          /\ faults' = faults + 1
          /\ calls' = Returned(c, "DataBaseWriteError")
          /\ UNCHANGED db
       \/ \E n \in 1..MaxParts :
          /\ db' = save_task(db, calls[c].id, n)
          /\ calls' = [calls EXCEPT ![c].pc = "enqueue", ![c].n = n, ![c].i = 0]
          /\ UNCHANGED faults
    /\ UNCHANGED <<txIndex, sendQ, statusQ, sendTasks, statusTasks, jobs>>
    /\ UNCHANGED <<budget, notPipeline>>

\* transfer(): one iteration of the enqueue loop under send_queue.write()
TransferEnqueue(c) ==
    /\ calls[c].pc = "enqueue"
    /\ calls[c].i > 0 \/ ~SendQueueLocked
    /\ \/ /\ sendQ' = queue_send(sendQ, PartId(calls[c].id, calls[c].i))
          /\ calls' = IF calls[c].i + 1 = calls[c].n
                      THEN Returned(c, "Ok")
                      ELSE [calls EXCEPT ![c].i = calls[c].i + 1]
          /\ UNCHANGED faults
       \/ /\ CanFail
          /\ faults' = faults + 1
          /\ calls' = Returned(c, "QueueError")
          /\ UNCHANGED sendQ
    /\ UNCHANGED <<db, txIndex, statusQ, sendTasks, statusTasks, jobs>>
    /\ UNCHANGED <<budget, notPipeline>>

\* ------------------------------------------------------------ task helpers

Remove(tasks, m) == [x \in (DOMAIN tasks) \ {m} |-> tasks[x]]

Spawn(tasks, m, t) == [x \in (DOMAIN tasks) \cup {m} |-> IF x = m THEN t ELSE tasks[x]]

\* ------------------------------------------------------------ submit worker

\* variant of success that persists the part as already on chain
SendSuccessMined(part, job_id) ==
    [delete |-> TRUE, check_status |-> TRUE,
     update |-> [part EXCEPT !.status = "Mining", !.job_id = job_id, !.attempt = 0]]

\* variant of success that forgets the job id
SendSuccessNoJob(part, job_id) ==
    [delete |-> TRUE, check_status |-> TRUE,
     update |-> [part EXCEPT !.status = "Relaying", !.attempt = 0]]

\* send_worker.rs ProcessResult constructors
SendSuccess(part, job_id) ==
    [delete |-> TRUE, check_status |-> TRUE,
     update |-> [part EXCEPT !.status = "Relaying", !.job_id = job_id, !.attempt = 0]]

SendRetryLater == [delete |-> FALSE, check_status |-> FALSE, update |-> NoRow]

SendDeleteFromQueue == [delete |-> TRUE, check_status |-> FALSE, update |-> NoRow]

SendRepeatCheckStatus == [delete |-> TRUE, check_status |-> TRUE, update |-> NoRow]

SendErrorWithoutRetryCounting(part, err) ==
    [delete |-> TRUE, check_status |-> FALSE,
     update |-> [part EXCEPT !.status = "Failed", !.err = err, !.attempt = part.attempt + 1]]

SendErrorWithoutRetry(part, err) ==
    [delete |-> TRUE, check_status |-> FALSE,
     update |-> [part EXCEPT !.status = "Failed", !.err = err]]

SendErrorWithRetryAttempts(part, err) ==
    IF part.attempt >= max_attempts
    THEN SendErrorWithoutRetry(part, err)
    ELSE [delete |-> FALSE, check_status |-> FALSE,
          update |-> [part EXCEPT !.attempt = part.attempt + 1]]

SendStatusMatchLax(status) ==
    CASE status = "New" -> "process"
      [] status \in {"Relaying", "Mining"} -> "repeat"
      [] status = "Failed" -> "process"
      [] OTHER -> "delete"

\* process(): the match on the loaded part's status
SendStatusMatch(status) ==
    CASE status = "New" -> "process"
      [] status \in {"Relaying", "Mining"} -> "repeat"
      [] OTHER -> "delete"

DependsGateLax(status) ==
    CASE status \in {"Relaying", "Mining", "Done"} -> "proceed"
      [] status = "Failed" -> "failed"
      [] status = "Err" -> "error"
      [] OTHER -> "postpone"

\* process(): the match on part_status(depends_on)
DependsGate(status) ==
    CASE status \in {"Mining", "Done"} -> "proceed"
      [] status = "Failed" -> "failed"
      [] status = "Err" -> "error"
      [] OTHER -> "postpone"

\* variant that tells the confirm worker before the part is saved
SendNextPcNotifyFirst(r, done) ==
    IF done = "process" /\ r.check_status THEN "notify"
    ELSE IF done \in {"process", "notify"} /\ r.update # NoRow THEN "save"
    ELSE IF r.delete THEN "delete"
    ELSE "end"

\* run_send_worker: what the spawned task does next with a ProcessResult
SendNextPc(r, done) ==
    IF done = "process" /\ r.update # NoRow THEN "save"
    ELSE IF done \in {"process", "save"} /\ r.check_status THEN "notify"
    ELSE IF r.delete THEN "delete"
    ELSE "end"

\* the task's position after process() returned r, or after a later stage
SendContinue(m, r, done, called) ==
    IF SendNextPc(r, done) = "end"
    THEN Remove(sendTasks, m)
    ELSE [sendTasks EXCEPT ![m].pc = SendNextPc(r, done), ![m].result = r,
                           ![m].called = called]

\* the position of a task process() has just loaded `part` for
SendLoaded(id, part) ==
    LET t == [pc |-> "build", id |-> id, part |-> part, pred |-> "",
              result |-> SendRetryLater, called |-> {}]
    IN CASE part = NoRow ->
              [t EXCEPT !.pc = "delete", !.result = SendDeleteFromQueue]
         [] part # NoRow /\ SendStatusMatch(part.status) = "repeat" ->
              [t EXCEPT !.pc = "notify", !.result = SendRepeatCheckStatus]
         [] part # NoRow /\ SendStatusMatch(part.status) = "delete" ->
              [t EXCEPT !.pc = "delete", !.result = SendDeleteFromQueue]
         [] OTHER ->
              [t EXCEPT !.pc = IF part.depends_on # NoKey THEN "depends" ELSE "build"]

\* run_send_worker: receive, in_progress.insert, spawn; then process():
\* get_part and the match on the part's status
SendReceive(msg) ==
    /\ msg \in sendQ
    /\ ~SendQueueLocked
    /\ msg.mid \notin DOMAIN sendTasks
    /\ Cardinality(DOMAIN sendTasks) < MaxTasks
    /\ \/ /\ sendTasks' = Spawn(sendTasks, msg.mid, SendLoaded(msg.id, get_part(db, msg.id)))
          /\ UNCHANGED faults
       \/ /\ CanFail
          /\ get_part(db, msg.id) # NoRow
          /\ faults' = faults + 1
          /\ sendTasks' = Spawn(sendTasks, msg.mid, SendLoaded(msg.id, NoRow))
    /\ UNCHANGED <<db, txIndex, sendQ, statusQ, statusTasks, jobs, calls>>
    /\ UNCHANGED <<budget, notPipeline>>

\* process(): part_status(depends_on) and its match
SendDepends(m) ==
    /\ m \in DOMAIN sendTasks
    /\ sendTasks[m].pc = "depends"
    /\ LET t == sendTasks[m]
           prev == get_part(db, t.part.depends_on)
       IN \E read \in {"Ok", "Err"} :
          /\ read = "Ok" => prev # NoRow
          /\ (read = "Err" /\ prev # NoRow) => CanFail
          /\ faults' = IF read = "Err" /\ prev # NoRow THEN faults + 1 ELSE faults
          /\ LET status == IF read = "Ok" THEN prev.status ELSE "Err"
                 gate == DependsGate(status)
             IN sendTasks' =
                  CASE gate = "proceed" ->
                         [sendTasks EXCEPT ![m].pred = status, ![m].pc = "build"]
                    [] gate = "failed" ->
                         [SendContinue(m, SendErrorWithoutRetry(t.part, "PreviousTxFailed"),
                                       "process", {}) EXCEPT ![m].pred = status]
                    [] gate = "error" ->
                         [SendContinue(m, SendErrorWithRetryAttempts(t.part, "DataBaseReadError"),
                                       "process", {}) EXCEPT ![m].pred = status]
                    [] OTHER ->
                         SendContinue(m, SendRetryLater, "process", {})
    /\ UNCHANGED <<db, txIndex, sendQ, statusQ, statusTasks, jobs, calls>>
    /\ UNCHANGED <<budget, notPipeline>>

\* process(): get_account, create_transfer, prove_tx and
\* relayer.send_transactions
SendSubmit(m) ==
    /\ m \in DOMAIN sendTasks
    /\ sendTasks[m].pc = "build"
    /\ LET t == sendTasks[m]
       IN \/ /\ CanFail
             /\ faults' = faults + 1
             /\ \E e \in {"AccountError", "ProveError", "RelayerSendError"} :
                  sendTasks' = SendContinue(m, SendErrorWithRetryAttempts(t.part, e), "process",
                                  CASE e = "AccountError" -> {"account"}
                                    [] e = "ProveError" -> {"account", "prover"}
                                    [] OTHER -> {"account", "prover", "relayer"})
             /\ UNCHANGED jobs
          \/ /\ jobs' = Append(jobs, "waiting")
             /\ sendTasks' = SendContinue(m, SendSuccess(t.part, Len(jobs) + 1), "process",
                                          {"account", "prover", "relayer"})
             /\ UNCHANGED faults
    /\ UNCHANGED <<db, txIndex, sendQ, statusQ, statusTasks, calls>>
    /\ UNCHANGED <<budget, notPipeline>>

\* run_send_worker: save_part(&update)
SendSave(m) ==
    /\ m \in DOMAIN sendTasks
    /\ sendTasks[m].pc = "save"
    /\ LET t == sendTasks[m]
       IN \/ /\ db' = save_part(db, t.result.update)
             /\ sendTasks' = SendContinue(m, t.result, "save", t.called)
             /\ UNCHANGED faults
          \/ /\ CanFail
             /\ faults' = faults + 1
             /\ sendTasks' = Remove(sendTasks, m)
             /\ UNCHANGED db
    /\ UNCHANGED <<txIndex, sendQ, statusQ, statusTasks, jobs, calls>>
    /\ UNCHANGED <<budget, notPipeline>>

\* run_send_worker: status_queue.send(id)
SendNotify(m) ==
    /\ m \in DOMAIN sendTasks
    /\ sendTasks[m].pc = "notify"
    /\ LET t == sendTasks[m]
       IN \/ /\ statusQ' = queue_send(statusQ, t.id)
             /\ sendTasks' = SendContinue(m, t.result, "notify", t.called)
             /\ UNCHANGED faults
          \/ /\ CanFail
             /\ faults' = faults + 1
             /\ sendTasks' = Remove(sendTasks, m)
             /\ UNCHANGED statusQ
    /\ UNCHANGED <<db, txIndex, sendQ, statusTasks, jobs, calls>>
    /\ UNCHANGED <<budget, notPipeline>>

\* run_send_worker: send_queue.delete(&redis_id) and in_progress.remove
SendDelete(m) ==
    /\ m \in DOMAIN sendTasks
    /\ sendTasks[m].pc = "delete"
    /\ ~SendQueueLocked
    /\ \/ /\ sendQ' = queue_delete(sendQ, m)
          /\ UNCHANGED faults
       \/ /\ CanFail
          /\ faults' = faults + 1
          /\ UNCHANGED sendQ
    /\ sendTasks' = Remove(sendTasks, m)
    /\ UNCHANGED <<db, txIndex, statusQ, statusTasks, jobs, calls>>
    /\ UNCHANGED <<budget, notPipeline>>

\* ----------------------------------------------------------------- relayer

RelayerStates == {"waiting", "sent", "completed", "reverted", "failed"}

\* TransferStatus::from_relayer_response
from_relayer_response(state) ==
    CASE state = "waiting" -> [status |-> "Relaying", err |-> ""]
      [] state = "sent" -> [status |-> "Mining", err |-> ""]
      [] state = "completed" -> [status |-> "Done", err |-> ""]
      [] state \in {"reverted", "failed"} -> [status |-> "Failed", err |-> "TaskRejectedByRelayer"]
      [] OTHER -> [status |-> "Failed", err |-> "RelayerSendError"]

\* JobResponse.tx_hash: known once the relayer has sent the transaction
TxHashOf(j) == IF jobs[j] \in {"sent", "completed", "reverted"} THEN j ELSE NoJob

\* Job j can still be asked for: a confirm task is about to ask for it, or a
\* part that is not final carries it. The relayer may be arbitrarily slow, so a
\* job nobody can ask for is left where it is; this keeps the relayer's
\* unobservable steps out of the state space.
Polled(j) ==
    \/ \E m \in DOMAIN statusTasks :
          statusTasks[m].pc = "job" /\ statusTasks[m].part.job_id = j
    \/ \E m \in DOMAIN statusTasks :
          statusTasks[m].pc = "save" /\ statusTasks[m].result.part.job_id = j
            /\ ~is_final(statusTasks[m].result.part.status)
    \/ \E k \in Keys : IsPart(db[k]) /\ db[k].job_id = j /\ ~is_final(db[k].status)

\* the relayer moves a job on: waiting -> sent -> completed | reverted, waiting -> failed
RelayerAdvance(j) ==
    /\ j \in DOMAIN jobs
    /\ Polled(j)
    /\ \E s \in RelayerStates :
        /\ \/ jobs[j] = "waiting" /\ s \in {"sent", "failed"}
           \/ jobs[j] = "sent" /\ s \in {"completed", "reverted"}
        /\ jobs' = [jobs EXCEPT ![j] = s]
    /\ UNCHANGED <<db, txIndex, sendQ, statusQ, sendTasks, statusTasks, calls, faults>>
    /\ UNCHANGED <<budget, notPipeline>>

\* ----------------------------------------------------------- confirm worker

\* status_worker.rs ProcessResult constructors
StatusSuccess(part, tx_hash) ==
    [part |-> [part EXCEPT !.status = "Done", !.tx_hash = tx_hash],
     delete |-> TRUE, update |-> TRUE, save_transaction_id |-> TRUE]

StatusRejected(part, err, tx_hash) ==
    [part |-> [part EXCEPT !.status = "Failed", !.err = err, !.tx_hash = tx_hash],
     delete |-> TRUE, update |-> TRUE, save_transaction_id |-> FALSE]

StatusUpdateStatus(part, status, tx_hash) ==
    [part |-> [part EXCEPT !.status = status, !.tx_hash = tx_hash],
     delete |-> FALSE, update |-> TRUE, save_transaction_id |-> FALSE]

StatusRetryLater ==
    [part |-> NoRow, delete |-> FALSE, update |-> FALSE, save_transaction_id |-> FALSE]

StatusDeleteFromQueue ==
    [part |-> NoRow, delete |-> TRUE, update |-> FALSE, save_transaction_id |-> FALSE]

StatusErrorWithoutRetry(part, err) ==
    [part |-> [part EXCEPT !.status = "Failed", !.err = err],
     delete |-> TRUE, update |-> TRUE, save_transaction_id |-> FALSE]

StatusErrorWithRetryAttempts(part, err) ==
    IF part.attempt >= max_attempts
    THEN StatusErrorWithoutRetry(part, err)
    ELSE [part |-> [part EXCEPT !.attempt = part.attempt + 1],
          delete |-> FALSE, update |-> TRUE, save_transaction_id |-> FALSE]

\* process(): the match on the loaded part's status
StatusStatusMatch(status) == IF status \in {"Relaying", "Mining"} THEN "process" ELSE "delete"

\* process(): the match on the relayer's answer (state, tx_hash) for a loaded part
StatusOnResponse(part, state, tx_hash) ==
    LET st == from_relayer_response(state)
    IN CASE st.status = "Done" ->
              IF tx_hash = NoJob THEN StatusErrorWithRetryAttempts(part, "RelayerSendError")
              ELSE StatusSuccess(part, tx_hash)
         [] st.status = "Mining" ->
              IF tx_hash = NoJob THEN StatusErrorWithRetryAttempts(part, "RelayerSendError")
              ELSE StatusUpdateStatus(part, "Mining", tx_hash)
         [] st.status = "Failed" -> StatusRejected(part, st.err, tx_hash)
         [] OTHER -> StatusRetryLater

\* run_status_worker and postprocessing: what the spawned task does next
StatusNextPc(r, done) ==
    IF done = "process" /\ r.part # NoRow /\ r.update THEN "save"
    ELSE IF done \in {"process", "save"} /\ r.part # NoRow /\ r.save_transaction_id
            /\ r.part.tx_hash # NoJob THEN "index"
    ELSE IF r.delete THEN "delete"
    ELSE "end"

StatusContinue(m, r, done, called) ==
    IF StatusNextPc(r, done) = "end"
    THEN Remove(statusTasks, m)
    ELSE [statusTasks EXCEPT ![m].pc = StatusNextPc(r, done), ![m].result = r,
                             ![m].called = called]

\* the position of a task process() has just loaded `part` for
StatusLoaded(id, part) ==
    LET t == [pc |-> "job", id |-> id, part |-> part,
              result |-> StatusRetryLater, called |-> {}]
    IN IF part = NoRow \/ StatusStatusMatch(part.status) = "delete" \/ part.job_id = NoJob
       THEN [t EXCEPT !.pc = "delete", !.result = StatusDeleteFromQueue]
       ELSE t

\* run_status_worker: receive_blocking, in_progress.insert, spawn; then
\* process(): get_part, the match on the part's status and the job_id check
StatusReceive(msg) ==
    /\ msg \in statusQ
    /\ msg.mid \notin DOMAIN statusTasks
    /\ Cardinality(DOMAIN statusTasks) < MaxTasks
    /\ \/ /\ statusTasks' = Spawn(statusTasks, msg.mid, StatusLoaded(msg.id, get_part(db, msg.id)))
          /\ UNCHANGED faults
       \/ /\ CanFail
          /\ get_part(db, msg.id) # NoRow
          /\ faults' = faults + 1
          /\ statusTasks' = Spawn(statusTasks, msg.mid, StatusLoaded(msg.id, NoRow))
    /\ UNCHANGED <<db, txIndex, sendQ, statusQ, sendTasks, jobs, calls>>
    /\ UNCHANGED <<budget, notPipeline>>

\* process(): relayer.job(job_id) and the match on its answer; the call may
\* fail, and an answer may come without the tx_hash the job has
StatusJob(m) ==
    /\ m \in DOMAIN statusTasks
    /\ statusTasks[m].pc = "job"
    /\ LET t == statusTasks[m]
           j == t.part.job_id
       IN \/ /\ CanFail
             /\ faults' = faults + 1
             /\ statusTasks' = StatusContinue(m,
                 StatusErrorWithRetryAttempts(t.part, "RelayerSendError"), "process", {"relayer"})
          \/ /\ statusTasks' = StatusContinue(m, StatusOnResponse(t.part, jobs[j], TxHashOf(j)),
                                               "process", {"relayer"})
             /\ UNCHANGED faults
          \/ /\ CanFail
             /\ jobs[j] \in {"sent", "completed"}
             /\ faults' = faults + 1
             /\ statusTasks' = StatusContinue(m, StatusOnResponse(t.part, jobs[j], NoJob),
                                               "process", {"relayer", "no_tx_hash"})
    /\ UNCHANGED <<db, txIndex, sendQ, statusQ, sendTasks, jobs, calls>>
    /\ UNCHANGED <<budget, notPipeline>>

\* postprocessing: save_part(part)
StatusSave(m) ==
    /\ m \in DOMAIN statusTasks
    /\ statusTasks[m].pc = "save"
    /\ LET t == statusTasks[m]
       IN \/ /\ db' = save_part(db, t.result.part)
             /\ statusTasks' = StatusContinue(m, t.result, "save", t.called)
             /\ UNCHANGED faults
          \/ /\ CanFail
             /\ faults' = faults + 1
             /\ statusTasks' = Remove(statusTasks, m)
             /\ UNCHANGED db
    /\ UNCHANGED <<txIndex, sendQ, statusQ, sendTasks, jobs, calls>>
    /\ UNCHANGED <<budget, notPipeline>>

\* variant in which a failed index write ends the task like a failed save
StatusIndexFatal(m, r, called) == Remove(statusTasks, m)

\* postprocessing: a failed save_transaction_id is logged and the task goes on
StatusIndexFailed(m, r, called) == StatusContinue(m, r, "index", called)

\* postprocessing: save_transaction_id(tx_hash, request_id), best effort
StatusIndex(m) ==
    /\ m \in DOMAIN statusTasks
    /\ statusTasks[m].pc = "index"
    /\ LET t == statusTasks[m]
       IN \/ /\ txIndex' = txIndex \cup {t.result.part.tx_hash}
             /\ statusTasks' = StatusContinue(m, t.result, "index", t.called)
             /\ UNCHANGED faults
          \/ /\ CanFail
             /\ faults' = faults + 1
             /\ statusTasks' = StatusIndexFailed(m, t.result, t.called)
             /\ UNCHANGED txIndex
    /\ UNCHANGED <<db, sendQ, statusQ, sendTasks, jobs, calls>>
    /\ UNCHANGED <<budget, notPipeline>>

\* run_status_worker: status_queue.delete(&redis_id) and in_progress.remove
StatusDelete(m) ==
    /\ m \in DOMAIN statusTasks
    /\ statusTasks[m].pc = "delete"
    /\ \/ /\ statusQ' = queue_delete(statusQ, m)
          /\ UNCHANGED faults
       \/ /\ CanFail
          /\ faults' = faults + 1
          /\ UNCHANGED statusQ
    /\ statusTasks' = Remove(statusTasks, m)
    /\ UNCHANGED <<db, txIndex, sendQ, sendTasks, jobs, calls>>
    /\ UNCHANGED <<budget, notPipeline>>

\* ------------------------------------------------------------------ restart

\* The process stops and ZkBobCloud::new runs again: spawned tasks, the
\* in_progress sets and running transfer() calls are gone; the store, the
\* queues and the relayer keep their state. new() enqueues nothing.
Restart ==
    /\ CanFail
    /\ sendTasks # <<>> \/ statusTasks # <<>> \/ \E c \in Calls : calls[c].pc \in {"checked", "enqueue"}
    /\ faults' = faults + 1
    /\ sendTasks' = <<>>
    /\ statusTasks' = <<>>
    /\ calls' = [c \in Calls |-> IF calls[c].pc \in {"checked", "enqueue"}
                                 THEN [calls[c] EXCEPT !.pc = "done", !.result = "Crashed"]
                                 ELSE calls[c]]
    /\ UNCHANGED <<db, txIndex, sendQ, statusQ, jobs>>
    /\ UNCHANGED <<budget, notPipeline>>

Next ==
    \/ \E c \in Calls, rid \in RequestIds : TransferCheck(c, rid)
    \/ \E c \in Calls : TransferSave(c)
    \/ \E c \in Calls : TransferEnqueue(c)
    \/ \E msg \in sendQ : SendReceive(msg)
    \/ \E m \in MsgIds : SendDepends(m)
    \/ \E m \in MsgIds : SendSubmit(m)
    \/ \E m \in MsgIds : SendSave(m)
    \/ \E m \in MsgIds : SendNotify(m)
    \/ \E m \in MsgIds : SendDelete(m)
    \/ \E msg \in statusQ : StatusReceive(msg)
    \/ \E m \in MsgIds : StatusJob(m)
    \/ \E m \in MsgIds : StatusSave(m)
    \/ \E m \in MsgIds : StatusIndex(m)
    \/ \E m \in MsgIds : StatusDelete(m)
    \/ \E j \in 1..Len(jobs) : RelayerAdvance(j)
    \/ Restart

Spec == Init /\ [][Next]_vars

\* transfer intake alone
IntakeNext ==
    \/ \E c \in Calls, rid \in RequestIds : TransferCheck(c, rid)
    \/ \E c \in Calls : TransferSave(c)
    \/ \E c \in Calls : TransferEnqueue(c)
    \/ Restart

IntakeSpec == IntakeInit /\ [][IntakeNext]_vars

\* The workers alone, after transfer() has accepted a request of one part, with
\* enough failures for a part to use up its attempts
RetryInit ==
    /\ db = save_task([k \in Keys |-> NoRow], <<"a">>, 1)
    /\ txIndex = {}
    /\ sendQ = {Message(1, PartId(<<"a">>, 0))}
    /\ statusQ = {}
    /\ sendTasks = <<>>
    /\ statusTasks = <<>>
    /\ jobs = <<>>
    /\ calls = [c \in 1..MaxCalls |->
                  IF c = 1 THEN [pc |-> "done", id |-> <<"a">>, n |-> 1, i |-> 0, result |-> "Ok"]
                  ELSE IdleCall]
    /\ faults = 0
    /\ budget = RetryFaults
    /\ RegistryIdle /\ CacheIdle /\ PlanIdle /\ FnIdle /\ SyncIdle

RetryNext ==
    \/ \E msg \in sendQ : SendReceive(msg)
    \/ \E m \in MsgIds : SendSubmit(m)
    \/ \E m \in MsgIds : SendSave(m)
    \/ \E m \in MsgIds : SendNotify(m)
    \/ \E m \in MsgIds : SendDelete(m)
    \/ \E msg \in statusQ : StatusReceive(msg)
    \/ \E m \in MsgIds : StatusJob(m)
    \/ \E m \in MsgIds : StatusSave(m)
    \/ \E m \in MsgIds : StatusIndex(m)
    \/ \E m \in MsgIds : StatusDelete(m)
    \/ \E j \in 1..Len(jobs) : RelayerAdvance(j)
    \/ Restart

RetrySpec == RetryInit /\ [][RetryNext]_vars

\* ------------------------------------------------------- panics in workers
\*
\* The submit and the confirm worker process each message in a task of its
\* own (tokio::spawn); the runtime catches the panic of a task, so the
\* worker's thread does not unwind and its loop goes on. The task ends where
\* it panicked: nothing removes its message id from in_progress. The report
\* worker processes its message inside the loop, under the WorkerCleanup guard
\* of its thread.

\* process or the code after it panics in a task of the submit worker
SendPanic(m) ==
    /\ m \in DOMAIN sendTasks
    /\ sendTasks[m].pc # "panicked"
    /\ CanFail
    /\ faults' = faults + 1
    /\ sendTasks' = [sendTasks EXCEPT ![m].pc = "panicked"]
    /\ UNCHANGED <<db, txIndex, sendQ, statusQ, statusTasks, jobs, calls>>
    /\ UNCHANGED <<budget, notPipeline>>

\* process or the code after it panics in a task of the confirm worker
StatusPanic(m) ==
    /\ m \in DOMAIN statusTasks
    /\ statusTasks[m].pc # "panicked"
    /\ CanFail
    /\ faults' = faults + 1
    /\ statusTasks' = [statusTasks EXCEPT ![m].pc = "panicked"]
    /\ UNCHANGED <<db, txIndex, sendQ, statusQ, sendTasks, jobs, calls>>
    /\ UNCHANGED <<budget, notPipeline>>

\* process panics in the report worker: its thread unwinds, WorkerCleanup is
\* dropped while panicking and the process exits
ReportPanic ==
    /\ CanFail
    /\ faults' = faults + 1
    /\ sendTasks' = <<>>
    /\ statusTasks' = <<>>
    /\ calls' = [c \in Calls |-> IF calls[c].pc \in {"checked", "enqueue"}
                                 THEN [calls[c] EXCEPT !.pc = "done", !.result = "Crashed"]
                                 ELSE calls[c]]
    /\ UNCHANGED <<db, txIndex, sendQ, statusQ, jobs>>
    /\ UNCHANGED <<budget, notPipeline>>

PanicNext ==
    \/ RetryNext
    \/ \E m \in MsgIds : SendPanic(m)
    \/ \E m \in MsgIds : StatusPanic(m)
    \/ ReportPanic

PanicSpec == RetryInit /\ [][PanicNext]_vars

\* The pipeline under the scheduling the two worker loops give it: a message
\* that stays in a queue is received again (receive_blocking polls without
\* end), a spawned task runs to its end, a call in progress returns, and the
\* relayer moves every job on to completed, reverted or failed.  Failures are
\* finite (faults never exceeds MaxFaults), so every operation that is tried
\* again succeeds in the end.
SendStep(m) ==
    SendDepends(m) \/ SendSubmit(m) \/ SendSave(m) \/ SendNotify(m) \/ SendDelete(m)

StatusStep(m) ==
    StatusJob(m) \/ StatusSave(m) \/ StatusIndex(m) \/ StatusDelete(m)

JobIds == 1..(MaxParts + MaxFaults)

Fairness ==
    /\ \A m \in MsgIds : WF_vars(\E msg \in sendQ : msg.mid = m /\ SendReceive(msg))
    /\ \A m \in MsgIds : WF_vars(SendStep(m))
    /\ \A m \in MsgIds : WF_vars(\E msg \in statusQ : msg.mid = m /\ StatusReceive(msg))
    /\ \A m \in MsgIds : WF_vars(StatusStep(m))
    /\ \A j \in JobIds : WF_vars(RelayerAdvance(j))
    /\ WF_vars(\E c \in Calls : TransferSave(c) \/ TransferEnqueue(c))

LiveSpec == Init /\ [][Next]_vars /\ Fairness

\* ======================================================= account registry
\*
\* ZkBobCloud.accounts is the map of loaded accounts; get_account hands out a
\* handle together with an AccountCleanup guard whose drop spawns a task that
\* removes the account's entry.  An op is one top-level request or worker task;
\* the Arc<Account> it holds is named by the op that loaded it.

Ops == 1..MaxOps

Holds(o, a) == ops[o].pc = "holding" /\ ops[o].id = a

OpDone(o, result) == [ops EXCEPT ![o].pc = "done", ![o].result = result]

\* variant of the guard's task that leaves the entry in the map
registry_keep(map, id) == map

\* Drop for AccountCleanup, the spawned task: accounts.write().await.remove(&id)
registry_remove(map, id) == [map EXCEPT ![id] = 0]

\* new_account: no row under the id yet; Account::new makes the directory and
\* save_account the row.  (With a row present it returns DuplicateAccountId
\* and changes nothing.)
NewAccount(a) ==
    /\ a \notin accountRows
    /\ accountDirs' = accountDirs \cup {a}
    /\ accountRows' = accountRows \cup {a}
    /\ UNCHANGED <<accounts, ops, cleanups>>
    /\ UNCHANGED notRegistry

\* get_account: db.get_account(id), AccountNotFound without a row
OpRead(o, a) ==
    /\ ops[o].pc = "idle"
    /\ ops' = IF a \in accountRows
              THEN [ops EXCEPT ![o] = [IdleOp EXCEPT !.kind = "use", !.pc = "read", !.id = a]]
              ELSE [ops EXCEPT ![o] = [IdleOp EXCEPT !.kind = "use", !.pc = "done", !.id = a,
                                                       !.result = "AccountNotFound"]]
    /\ UNCHANGED <<accountRows, accountDirs, accounts, cleanups>>
    /\ UNCHANGED notRegistry

\* get_account under accounts.write(): an entry is cloned; without one the
\* account is loaded from its directory or made again from the saved key and
\* inserted.  When neither works the error is returned with no guard made.
OpLoad(o) ==
    /\ ops[o].pc = "read"
    /\ ops[o].kind = "use"
    /\ LET a == ops[o].id
       IN \/ /\ accounts[a] # 0
             /\ ops' = [ops EXCEPT ![o].pc = "holding", ![o].handle = accounts[a]]
             /\ UNCHANGED <<accounts, accountDirs>>
          \/ /\ accounts[a] = 0
             /\ accounts' = [accounts EXCEPT ![a] = o]
             /\ accountDirs' = accountDirs \cup {a}
             /\ ops' = [ops EXCEPT ![o].pc = "holding", ![o].handle = o]
          \/ /\ accounts[a] = 0
             /\ ops' = OpDone(o, "InternalError")
             /\ UNCHANGED <<accounts, accountDirs>>
    /\ UNCHANGED <<accountRows, cleanups>>
    /\ UNCHANGED notRegistry

\* the operation returns, with a value or an error: the guard is dropped and
\* its drop spawns the cleanup task
OpFinish(o) ==
    /\ ops[o].pc = "holding"
    /\ \E r \in {"Ok", "Err"} : ops' = OpDone(o, r)
    /\ cleanups' = [cleanups EXCEPT ![ops[o].id] = @ + 1]
    /\ UNCHANGED <<accountRows, accountDirs, accounts>>
    /\ UNCHANGED notRegistry

\* the spawned cleanup task runs
Cleanup(a) ==
    /\ cleanups[a] > 0
    /\ accounts' = registry_remove(accounts, a)
    /\ cleanups' = [cleanups EXCEPT ![a] = @ - 1]
    /\ UNCHANGED <<accountRows, accountDirs, ops>>
    /\ UNCHANGED notRegistry

\* delete_account: db.get_account(id), AccountNotFound without a row
DeleteRead(o, a) ==
    /\ ops[o].pc = "idle"
    /\ ops' = IF a \in accountRows
              THEN [ops EXCEPT ![o] = [IdleOp EXCEPT !.kind = "delete", !.pc = "read", !.id = a]]
              ELSE [ops EXCEPT ![o] = [IdleOp EXCEPT !.kind = "delete", !.pc = "done", !.id = a,
                                                       !.result = "AccountNotFound"]]
    /\ UNCHANGED <<accountRows, accountDirs, accounts, cleanups>>
    /\ UNCHANGED notRegistry

\* delete_account under accounts.write(): AccountIsBusy with an entry in the
\* map; else remove_dir_all, InternalError when it fails; else delete the row
DeleteLocked(o) ==
    /\ ops[o].pc = "read"
    /\ ops[o].kind = "delete"
    /\ LET a == ops[o].id
       IN IF accounts[a] # 0
          THEN /\ ops' = OpDone(o, "AccountIsBusy")
               /\ UNCHANGED <<accountRows, accountDirs>>
          ELSE IF a \notin accountDirs
          THEN /\ ops' = OpDone(o, "InternalError")
               /\ UNCHANGED <<accountRows, accountDirs>>
          ELSE \/ /\ accountDirs' = accountDirs \ {a}
                  /\ accountRows' = accountRows \ {a}
                  /\ ops' = OpDone(o, "Ok")
               \/ /\ accountDirs' = accountDirs \ {a}
                  /\ ops' = OpDone(o, "DataBaseWriteError")
                  /\ UNCHANGED accountRows
               \/ /\ ops' = OpDone(o, "InternalError")
                  /\ UNCHANGED <<accountRows, accountDirs>>
    /\ UNCHANGED <<accounts, cleanups>>
    /\ UNCHANGED notRegistry

RegistryInit == PipelineIdle /\ RegistryIdle /\ CacheIdle /\ PlanIdle /\ FnIdle /\ SyncIdle

RegistryNext ==
    \/ \E a \in AccountIds : NewAccount(a)
    \/ \E o \in Ops, a \in AccountIds : OpRead(o, a)
    \/ \E o \in Ops : OpLoad(o)
    \/ \E o \in Ops : OpFinish(o)
    \/ \E a \in AccountIds : Cleanup(a)
    \/ \E o \in Ops, a \in AccountIds : DeleteRead(o, a)
    \/ \E o \in Ops : DeleteLocked(o)

RegistrySpec == RegistryInit /\ [][RegistryNext]_vars

\* =========================================================== relayer cache
\*
\* The relayer's pool is a sequence of records as it sends them: a flag
\* character, "1" for a mined record, and a hash; the record at position k has
\* index (k - 1) * TxStep.  Records may change until they are mined and
\* are mined in any order.  The cache maps an index to a stored Transaction.

Hashes == 1..MaxHash

Offsets == { k * TxStep : k \in 0..MaxPool }

\* RelayerClient::transactions(offset, limit): at most limit records from offset
RelayerTransactions(p, offset, limit) ==
    LET first == (offset \div TxStep) + 1
        last == IF first + limit - 1 < Len(p) THEN first + limit - 1 ELSE Len(p)
    IN IF first > Len(p) \/ limit = 0 THEN <<>> ELSE SubSeq(p, first, last)

\* Db::get_txs, the loop: records from index on, up to n, until the first miss
RECURSIVE get_txs_from(_, _, _)
get_txs_from(c, index, n) ==
    IF n = 0 \/ index \notin DOMAIN c THEN <<>>
    ELSE IF c[index] = NoTx THEN <<>>
    ELSE <<c[index]>> \o get_txs_from(c, index + TxStep, n - 1)

\* variant that steps over the indexes the cache does not hold
RECURSIVE get_txs_sparse_from(_, _, _)
get_txs_sparse_from(c, index, n) ==
    IF n = 0 \/ index \notin DOMAIN c THEN <<>>
    ELSE IF c[index] = NoTx THEN get_txs_sparse_from(c, index + TxStep, n - 1)
    ELSE <<c[index]>> \o get_txs_sparse_from(c, index + TxStep, n - 1)

get_txs_sparse(c, offset, limit) == get_txs_sparse_from(c, offset, limit)

\* Db::get_txs(offset, limit)
get_txs(c, offset, limit) == get_txs_from(c, offset, limit)

\* Db::save_txs: one write, every record under the key of its index
save_txs(c, txs) ==
    [k \in DOMAIN c |->
        LET at == { i \in 1..Len(txs) : txs[i].index = k }
        IN IF at = {} THEN c[k]
           ELSE txs[CHOOSE i \in at : \A i2 \in at : i2 <= i]]

\* variant that numbers the fetched records one after the other
FetchedTxPacked(offset, i, tx) ==
    [index |-> offset + i, tx_hash |-> tx.hash, optimistic |-> tx.flag # "1"]

\* transactions(): the Transaction made from the i-th fetched record (i from 0)
FetchedTx(offset, i, tx) ==
    [index |-> offset + i * TxStep, tx_hash |-> tx.hash, optimistic |-> tx.flag # "1"]

\* transactions(): the loop over the fetched records
Fetched(offset, fetched, with_optimistic) ==
    SelectSeq([i \in 1..Len(fetched) |-> FetchedTx(offset, i - 1, fetched[i])],
              LAMBDA tx : with_optimistic \/ ~tx.optimistic)

\* variant that writes every returned record to the cache
new_mined_all(result) == result

\* transactions(): result.iter().filter(|tx| !tx.optimistic)
new_mined(result) == SelectSeq(result, LAMBDA tx : ~tx.optimistic)

\* the relayer accepts a record, pending or already mined
PoolAppend ==
    /\ Len(pool) < MaxPool
    /\ \E flag \in {"0", "1"}, h \in Hashes : pool' = Append(pool, [flag |-> flag, hash |-> h])
    /\ UNCHANGED <<cache, txCall>>
    /\ UNCHANGED notCache

\* a pending record is mined, under the hash it then has
PoolMine(k) ==
    /\ k \in 1..Len(pool)
    /\ pool[k].flag # "1"
    /\ \E h \in Hashes : pool' = [pool EXCEPT ![k] = [flag |-> "1", hash |-> h]]
    /\ UNCHANGED <<cache, txCall>>
    /\ UNCHANGED notCache

\* transactions(offset, limit, with_optimistic) up to the request to the
\* relayer: the cached prefix is read; it is returned when it covers the limit
TxStart(offset, limit, with_optimistic) ==
    /\ txCall.pc # "fetching"
    /\ LET cached == get_txs(cache, offset, limit)
       IN txCall' = [pc |-> IF limit - Len(cached) = 0 THEN "returned" ELSE "fetching",
                     offset |-> offset, limit |-> limit,
                     with_optimistic |-> with_optimistic,
                     cached |-> cached,
                     result |-> IF limit - Len(cached) = 0 THEN cached ELSE <<>>]
    /\ UNCHANGED <<pool, cache>>
    /\ UNCHANGED notCache

\* transactions() from the relayer's answer on: an error is returned as it is;
\* else the fetched records are appended, the mined ones of the result saved,
\* a failed save only logged
TxFetch ==
    /\ txCall.pc = "fetching"
    /\ LET offset == txCall.offset + TxStep * Len(txCall.cached)
           limit == txCall.limit - Len(txCall.cached)
           fetched == RelayerTransactions(pool, offset, limit)
           result == txCall.cached \o Fetched(offset, fetched, txCall.with_optimistic)
       IN \/ /\ txCall' = [txCall EXCEPT !.pc = "failed"]
             /\ UNCHANGED cache
          \/ /\ txCall' = [txCall EXCEPT !.pc = "returned", !.result = result]
             /\ \/ cache' = save_txs(cache, new_mined(result))
                \/ UNCHANGED cache
    /\ UNCHANGED pool
    /\ UNCHANGED notCache

CacheInit == PipelineIdle /\ RegistryIdle /\ CacheIdle /\ PlanIdle /\ FnIdle /\ SyncIdle

CacheNext ==
    \/ PoolAppend
    \/ \E k \in 1..MaxPool : PoolMine(k)
    \/ \E offset \in Offsets, limit \in 0..MaxLimit, w \in BOOLEAN : TxStart(offset, limit, w)
    \/ TxFetch

CacheSpec == CacheInit /\ [][CacheNext]_vars

\* ======================================================== transfer planner
\*
\* Account::get_tx_parts splits a transfer into parts.  Amounts are Num<Fr>:
\* they are added and subtracted modulo the field order and compared by their
\* unsigned value.  planIn is the account's state and the request, planOut
\* what get_tx_parts returned for it.

\* Num<Fr> addition and subtraction
NumAdd(a, b) == (a + b) % FieldOrder

NumSub(a, b) == (a + FieldOrder - b) % FieldOrder

\* variant with one note to a transaction
ChunkSizeOne == Len(<<"note">>)

\* notes.chunks(3): the first chunk and what follows it
ChunkSize == 3

FirstChunk(notes) == SubSeq(notes, 1, IF Len(notes) < ChunkSize THEN Len(notes) ELSE ChunkSize)

AfterChunk(notes) == SubSeq(notes, Len(FirstChunk(notes)) + 1, Len(notes))

\* note_balance: the notes of one chunk added up from Num::ZERO
RECURSIVE NoteBalance(_)
NoteBalance(chunk) ==
    IF chunk = <<>> THEN 0 ELSE NumAdd(NoteBalance(Tail(chunk)), Head(chunk))

\* get_tx_parts: the parts pushed, (Some(to), amount) and (None, amount)
PartWithReceiver(amount) == [to |-> "to", amount |-> amount]

PartWithoutReceiver(amount) == [to |-> "None", amount |-> amount]

\* get_tx_parts: the loop over the chunks of usable notes
RECURSIVE PartsLoop(_, _, _, _, _)
PartsLoop(notes, account_balance, amount, fee, parts) ==
    IF notes = <<>> THEN [kind |-> "err", err |-> "InsufficientBalance"]
    ELSE LET note_balance == NoteBalance(FirstChunk(notes))
         IN IF NumAdd(note_balance, account_balance) >= NumAdd(amount, fee)
            THEN [kind |-> "ok", parts |-> Append(parts, PartWithReceiver(amount))]
            ELSE PartsLoop(AfterChunk(notes),
                           NumAdd(account_balance, NumSub(note_balance, fee)),
                           amount, fee,
                           Append(parts, PartWithoutReceiver(NumSub(note_balance, fee))))

\* Account::get_tx_parts(total_amount, fee, to) on an account with this
\* balance and these usable notes
get_tx_parts(account_balance, notes, amount, fee) ==
    IF account_balance >= NumAdd(amount, fee)
    THEN [kind |-> "ok", parts |-> <<PartWithReceiver(amount)>>]
    ELSE PartsLoop(notes, account_balance, amount, fee, <<>>)

\* Account::max_transfer_amount, the loop over the chunks of usable notes
RECURSIVE MaxLoop(_, _, _, _)
MaxLoop(notes, account_balance, fee, max_amount) ==
    IF notes = <<>> THEN max_amount
    ELSE LET note_balance == NoteBalance(FirstChunk(notes))
             next == NumAdd(account_balance, NumSub(note_balance, fee))
         IN IF NumAdd(account_balance, note_balance) < fee THEN max_amount
            ELSE MaxLoop(AfterChunk(notes), next, fee,
                         IF next > max_amount THEN next ELSE max_amount)

\* Account::max_transfer_amount(fee)
max_transfer_amount(account_balance, notes, fee) ==
    MaxLoop(notes, account_balance, fee,
            IF account_balance > fee THEN NumSub(account_balance, fee) ELSE 0)

\* ZkBobCloud::calculate_fee: the number of parts and as many relayer fees
calculate_fee(account_balance, notes, amount, relayer_fee) ==
    LET r == get_tx_parts(account_balance, notes, amount, relayer_fee)
    IN IF r.kind = "ok"
       THEN [kind |-> "ok", transactionCount |-> Len(r.parts),
             totalFee |-> Len(r.parts) * relayer_fee]
       ELSE r

NoteValues == {1, 2, MaxNote}

\* every sequence of at most n notes
RECURSIVE NoteSeqs(_)
NoteSeqs(n) ==
    IF n = 0 THEN {<<>>}
    ELSE NoteSeqs(n - 1) \cup
         { Append(s, b) : s \in { s2 \in NoteSeqs(n - 1) : Len(s2) = n - 1 }, b \in NoteValues }

\* the seeded account of the walkthrough: balance 40, three notes of 100,
\* fee 10, and a transfer of 150
SeedInput ==
    [kind |-> "in", balance |-> 40, notes |-> <<100, 100, 100>>, amount |-> 150, fee |-> 10]

PlanInputs ==
    [kind : {"in"}, balance : 0..MaxBalance, notes : NoteSeqs(MaxNotes),
     amount : 0..MaxAmount, fee : 0..MaxFee] \cup {SeedInput}

PlanInit ==
    /\ PipelineIdle /\ RegistryIdle /\ CacheIdle /\ FnIdle /\ SyncIdle
    /\ planIn \in PlanInputs
    /\ planOut = NoPlan
    /\ planMax = NoPlan
    /\ planFee = NoPlan

\* get_tx_parts is called
PlanCall ==
    /\ planOut = NoPlan
    /\ planOut' = get_tx_parts(planIn.balance, planIn.notes, planIn.amount, planIn.fee)
    /\ UNCHANGED <<planIn, planMax, planFee>>
    /\ UNCHANGED notPlan

\* max_transfer_amount is called
MaxCall ==
    /\ planMax = NoPlan
    /\ planMax' = [kind |-> "ok",
                   amount |-> max_transfer_amount(planIn.balance, planIn.notes, planIn.fee)]
    /\ UNCHANGED <<planIn, planOut, planFee>>
    /\ UNCHANGED notPlan

\* calculate_fee is called
FeeCall ==
    /\ planFee = NoPlan
    /\ planFee' = calculate_fee(planIn.balance, planIn.notes, planIn.amount, planIn.fee)
    /\ UNCHANGED <<planIn, planOut, planMax>>
    /\ UNCHANGED notPlan

PlanNext == PlanCall \/ MaxCall \/ FeeCall

PlanSpec == PlanInit /\ [][PlanNext]_vars

\* ==================================================== functions on values
\*
\* The functions below take a value and return one; fnIn is the value a
\* function is called on, tagged with the function it is for, and fnOut what
\* the function returned.

NoteIndexes == 1..MaxIndex

\* every sequence of different note indexes
RECURSIVE DistinctSeqs(_)
DistinctSeqs(S) ==
    {<<>>} \cup UNION { { <<i>> \o s : s \in DistinctSeqs(S \ {i}) } : i \in S }

InSeq(s, x) == \E k \in 1..Len(s) : s[k] = x

Web3TxTypes == {"Deposit", "DepositPermittable", "Transfer", "Withdrawal", "DirectDeposit"}

\* a DecMemo (its notes named by their indexes) with the TxWeb3Info of its
\* transaction
HistoryInputs ==
    [kind : {"history"}, tx_type : Web3TxTypes, acc : BOOLEAN,
     in_notes : DistinctSeqs(NoteIndexes), out_notes : DistinctSeqs(NoteIndexes)]

\* variant that takes no incoming note for the account's own
LoopbackNever(out_notes, index) == FALSE

\* HistoryTx::parse: out_notes.iter().any(|out_note| out_note.index == note.index)
Loopback(out_notes, index) == InSeq(out_notes, index)

HistoryEntry(tx_type, note) == [tx_type |-> tx_type, note |-> note]

\* HistoryTx::parse, Web3TxType::Transfer
ParseTransfer(memo) ==
    LET aggregate == IF memo.in_notes = <<>> /\ memo.out_notes = <<>>
                     THEN <<HistoryEntry("AggregateNotes", 0)>> ELSE <<>>
        incoming == [k \in 1..Len(memo.in_notes) |->
                        HistoryEntry(IF Loopback(memo.out_notes, memo.in_notes[k])
                                     THEN "ReturnedChange" ELSE "TransferIn",
                                     memo.in_notes[k])]
        outgoing == SelectSeq(memo.out_notes, LAMBDA i : ~InSeq(memo.in_notes, i))
    IN aggregate \o incoming \o
       [k \in 1..Len(outgoing) |-> HistoryEntry("TransferOut", outgoing[k])]

\* HistoryTx::parse(memo, info, transaction_id, last_account)
HistoryParse(memo) ==
    CASE memo.tx_type \in {"Deposit", "DepositPermittable"} ->
            [kind |-> "ok", history |-> <<HistoryEntry("Deposit", 0)>>]
      [] memo.tx_type = "Withdrawal" ->
            [kind |-> "ok", history |-> <<HistoryEntry("Withdrawal", 0)>>]
      [] memo.tx_type = "DirectDeposit" ->
            [kind |-> "ok",
             history |-> [k \in 1..Len(memo.in_notes) |->
                             HistoryEntry("DirectDeposit", memo.in_notes[k])]]
      [] memo.tx_type = "Transfer" ->
            IF memo.in_notes = <<>> /\ memo.out_notes = <<>> /\ ~memo.acc
            THEN [kind |-> "panic"]
            ELSE [kind |-> "ok", history |-> ParseTransfer(memo)]

\* ------------------------------------------------------ history records

\* an Option: <<>> is None, <<x>> is Some(x)
None == <<>>

Some(x) == <<x>>

HistoryTxTypes ==
    {"Withdrawal", "TransferIn", "TransferOut", "AggregateNotes", "DirectDeposit"}

TransactionIds == {"t1", "t2"}

CloudHistoryTxs ==
    [tx_type : HistoryTxTypes, fee : 1..MaxTxFee,
     transaction_id : {None} \cup { Some(t) : t \in TransactionIds }]

\* the history of an account, every transaction under its own hash
RecordsInputs ==
    { [kind |-> "records",
       txs |-> [k \in 1..n |->
                   [tx_type |-> f[k].tx_type, tx_hash |-> k, fee |-> f[k].fee,
                    transaction_id |-> f[k].transaction_id]]] :
        n \in 0..MaxTxs, f \in [1..MaxTxs -> CloudHistoryTxs] }

\* variant that links every aggregate, whatever its transaction id
LinkedAll(txs, transaction_id) ==
    SelectSeq(txs, LAMBDA tx : tx.tx_type = "AggregateNotes")

\* prepare_records: linked_txs
LinkedTo(txs, transaction_id) ==
    SelectSeq(txs, LAMBDA tx : /\ tx.transaction_id = Some(transaction_id)
                               /\ tx.tx_type = "AggregateNotes")

RECURSIVE FeeSum(_)
FeeSum(txs) == IF txs = <<>> THEN 0 ELSE Head(txs).fee + FeeSum(Tail(txs))

\* prepare_records: the record made of one transaction
HistoryRecord(txs, tx) ==
    LET fee == IF tx.tx_type # "TransferIn" /\ tx.tx_type # "DirectDeposit"
               THEN Some(tx.fee) ELSE None
    IN IF tx.transaction_id # None
       THEN LET linked_txs == LinkedTo(txs, tx.transaction_id[1])
                hashes == [k \in 1..Len(linked_txs) |-> linked_txs[k].tx_hash]
            IN [tx_type |-> tx.tx_type, tx_hash |-> tx.tx_hash,
                linked_tx_hashes |-> IF hashes # <<>> THEN Some(hashes) ELSE None,
                fee |-> IF fee = None THEN None ELSE Some(fee[1] + FeeSum(linked_txs)),
                transaction_id |-> tx.transaction_id]
       ELSE [tx_type |-> tx.tx_type, tx_hash |-> tx.tx_hash,
             linked_tx_hashes |-> None, fee |-> fee, transaction_id |-> None]

\* HistoryRecord::prepare_records
prepare_records(txs) ==
    LET shown == SelectSeq(txs, LAMBDA tx : tx.tx_type # "AggregateNotes")
    IN [k \in 1..Len(shown) |-> HistoryRecord(txs, shown[k])]

\* ------------------------------------------------------- error responses

\* enum CloudError
CloudErrors ==
    {"BadRequest", "CustodyLockError", "StateSyncError", "IncorrectAccountId",
     "AccountNotFound", "DuplicateAccountId", "InvalidTransactionId",
     "DuplicateTransactionId", "DataBaseReadError", "DataBaseWriteError",
     "RelayerSendError", "TransactionNotFound", "InternalError",
     "RetriesExhausted", "TaskRejectedByRelayer", "RetryNeeded", "AccessDenied",
     "PreviousTxFailed", "InsufficientBalance", "AccountIsBusy",
     "AccountIsNotSynced", "ServiceIsBusy", "TransactionExpired",
     "TransactionStatusUnknown", "ConfigError", "Web3Error", "ReportNotFound"}

ErrorInputs == [kind : {"error"}, error : CloudErrors]

\* ResponseError for CloudError: status_code
status_code(error) ==
    CASE error \in {"TransactionNotFound", "DuplicateTransactionId", "BadRequest",
                    "IncorrectAccountId", "AccountNotFound"} -> 400
      [] error = "AccessDenied" -> 401
      [] OTHER -> 500

\* ------------------------------------------------------ transfer status

TransferStatuses == {"New", "Proving", "Relaying", "Mining", "Done", "Failed"}

\* the parts of one transfer as transfer_status returns them, each with its
\* position for a timestamp
StatusInputs ==
    { [kind |-> "status",
       parts |-> [k \in 1..n |->
                     [status |-> f[k].status, tx_hash |-> f[k].tx_hash, timestamp |-> k]]] :
        n \in 1..MaxParts,
        f \in [1..MaxParts -> [status : TransferStatuses,
                               tx_hash : {None} \cup { Some(h) : h \in 1..MaxHash }]] }

\* TransferStatus::status
StatusName(status) == status

\* TransferStatus::failure_reason
failure_reason(status) == IF status = "Failed" THEN Some("error") ELSE None

\* TransactionStatusResponse::from: tx_hashes
TxHashes(parts) ==
    LET with_hash == SelectSeq(parts, LAMBDA part : part.tx_hash # None /\ part.status # "Mining")
    IN [k \in 1..Len(with_hash) |-> with_hash[k].tx_hash[1]]

\* TransactionStatusResponse::from: status, timestamp and failure_reason
StatusOf(parts) ==
    LET last == parts[Len(parts)]
    IN CASE last.status = "Done" ->
              [status |-> StatusName("Done"), timestamp |-> last.timestamp,
               failure_reason |-> None]
         [] last.status = "Failed" ->
              LET k == CHOOSE k \in 1..Len(parts) :
                          /\ parts[k].status = "Failed"
                          /\ \A j \in 1..(k - 1) : parts[j].status # "Failed"
              IN [status |-> StatusName(parts[k].status), timestamp |-> parts[k].timestamp,
                  failure_reason |-> failure_reason(parts[k].status)]
         [] OTHER ->
              LET relevant == SelectSeq(parts, LAMBDA job : job.status # "New")
              IN IF relevant # <<>>
                 THEN [status |-> StatusName("Relaying"),
                       timestamp |-> relevant[Len(relevant)].timestamp,
                       failure_reason |-> None]
                 ELSE [status |-> StatusName("New"), timestamp |-> parts[1].timestamp,
                       failure_reason |-> None]

\* TransactionStatusResponse::from
TransactionStatusResponse(parts) ==
    LET tx_hashes == TxHashes(parts)
        tx_hash == IF tx_hashes = <<>> THEN None ELSE Some(tx_hashes[Len(tx_hashes)])
        linked_tx_hashes == IF tx_hash # None
                            THEN Some(SubSeq(tx_hashes, 1, Len(tx_hashes) - 1))
                            ELSE None
        st == StatusOf(parts)
    IN [kind |-> "ok", status |-> st.status, timestamp |-> st.timestamp,
        tx_hash |-> tx_hash, linked_tx_hashes |-> linked_tx_hashes,
        failure_reason |-> st.failure_reason]

\* serde: the fields of the response that are written, an Option that is
\* None being skipped
Serialized(response) ==
    {"status", "timestamp"}
        \cup (IF response.tx_hash # None THEN {"txHash"} ELSE {})
        \cup (IF response.linked_tx_hashes # None THEN {"linkedTxHashes"} ELSE {})
        \cup (IF response.failure_reason # None THEN {"failureReason"} ELSE {})

\* ---------------------------------------------------------- account sync

\* a pool transaction as parse_tx reads it: the length of its memo, the
\* prefix (flag and item count), whether the bytes of its delegated deposits
\* are complete, and whether it holds notes of the account
MemoShapes ==
    { m \in [len : {3, 4}, delegated : BOOLEAN, num_items : {1, TxStep, TxStep + 1},
             readable : BOOLEAN, acc : BOOLEAN, mine : BOOLEAN] :
        m.delegated => ~m.acc }

\* the account before a sync with the batch the relayer returns for it; the
\* k-th transaction has index next_index + (k - 1) * (OUT + 1)
SyncInputs ==
    { [kind |-> "sync", next_index |-> TxStep, db_ok |-> ok,
       txs |-> [k \in 1..n |->
                   [index |-> TxStep + (k - 1) * TxStep, len |-> f[k].len,
                    delegated |-> f[k].delegated, num_items |-> f[k].num_items,
                    readable |-> f[k].readable, acc |-> f[k].acc, mine |-> f[k].mine]]] :
        n \in 0..MaxBatch, f \in [1..MaxBatch -> MemoShapes], ok \in BOOLEAN }

\* a batch parse_txs is called with
ParseInputs == { [kind |-> "parse", txs |-> s.txs] : s \in SyncInputs }

ParseResult(decrypted_memos, new_leafs, new_commitments) ==
    [kind |-> "ok", decrypted_memos |-> decrypted_memos,
     new_leafs |-> new_leafs, new_commitments |-> new_commitments]

\* variant that looks at the notes only
ParsedNotesOnly(tx) ==
    IF tx.mine THEN ParseResult(<<tx.index>>, <<tx.index>>, <<>>)
    ELSE ParseResult(<<>>, <<>>, <<tx.index>>)

\* parse_tx: what it returns for a transaction it read through. decrypt_out
\* yields the account state (acc) of a regular memo; mine says that a note of
\* the memo belongs to the account
Parsed(tx) ==
    IF (~tx.delegated /\ tx.acc) \/ tx.mine
    THEN ParseResult(<<tx.index>>, <<tx.index>>, <<>>)
    ELSE ParseResult(<<>>, <<>>, <<tx.index>>)

\* parse_tx
parse_tx(tx) ==
    CASE tx.len < 4 -> [kind |-> "err", err |-> "NoPrefix"]
      [] tx.len >= 4 /\ tx.delegated ->
            IF tx.readable THEN Parsed(tx) ELSE [kind |-> "panic"]
      [] tx.len >= 4 /\ ~tx.delegated ->
            IF tx.num_items <= TxStep THEN Parsed(tx)
            ELSE [kind |-> "err", err |-> "IncorrectPrefix"]

RECURSIVE Concat(_, _)
Concat(results, field) ==
    IF results = <<>> THEN <<>>
    ELSE Head(results)[field] \o Concat(Tail(results), field)

\* parse_txs
parse_txs(txs) ==
    LET results == [k \in 1..Len(txs) |-> parse_tx(txs[k])]
        parse_results == SelectSeq(results, LAMBDA r : r.kind = "ok")
    IN IF \E k \in 1..Len(results) : results[k].kind = "panic"
       THEN [kind |-> "panic"]
       ELSE IF \A k \in 1..Len(results) : results[k].kind # "err"
            THEN ParseResult(Concat(parse_results, "decrypted_memos"),
                             Concat(parse_results, "new_leafs"),
                             Concat(parse_results, "new_commitments"))
            ELSE [kind |-> "err", err |-> "StateSyncError"]

\* Account::update_state: the tree's next index after the leafs and
\* commitments of the batch
update_state(next_index, state_update) ==
    LET added == state_update.new_leafs \o state_update.new_commitments
        Last == CHOOSE i \in { added[k] : k \in 1..Len(added) } :
                    \A k \in 1..Len(added) : added[k] <= i
    IN IF added = <<>> THEN next_index
       ELSE IF Last + TxStep > next_index THEN Last + TxStep ELSE next_index

\* Account::sync, the account having saved no memo before
sync(account) ==
    LET parse_result == parse_txs(account.txs)
    IN CASE parse_result.kind = "panic" ->
              [kind |-> "panic", next_index |-> account.next_index, memos |-> <<>>]
         [] parse_result.kind = "err" ->
              [kind |-> "err", err |-> parse_result.err,
               next_index |-> account.next_index, memos |-> <<>>]
         [] OTHER ->
              LET next_index == update_state(account.next_index, parse_result)
              IN IF account.db_ok
                 THEN [kind |-> "ok", next_index |-> next_index,
                       memos |-> parse_result.decrypted_memos]
                 ELSE [kind |-> "err", err |-> "DataBaseWriteError",
                       next_index |-> next_index, memos |-> <<>>]

\* ------------------------------------------------------ admin operations

\* config.admin_token
admin_token == "admin"

\* the bearer tokens a request may present
Tokens == {"admin", "Admin", ""}

AdminRoutes ==
    {"signup", "import", "deleteAccount", "accounts", "transactionTrace",
     "export", "generateReport", "report", "cleanReports"}

TaskIds == {"t1"}

ReportIds == {"r1", "r2"}

\* what the admin operations read and write: the account rows of the db, the
\* accounts held in memory, the transfer tasks, the report tasks and the
\* report queue
Stores ==
    { [accounts |-> a, open |-> o, tasks |-> t, reports |-> r, report_queue |-> r] :
        a \in SUBSET AccountIds, o \in SUBSET AccountIds, t \in SUBSET TaskIds,
        r \in SUBSET {"r1"} }

\* a request to an admin route: ids[1] is the account it names, ids the
\* accounts of an import
AdminInputs ==
    { [kind |-> "admin", route |-> route, token |-> token, ids |-> ids,
       transaction_id |-> "t1", report |-> "r1", store |-> store] :
        route \in AdminRoutes, token \in Tokens,
        ids \in {<<"a1">>, <<"a2", "a1">>},
        store \in { st \in Stores : st.open \subseteq st.accounts } }

\* variant that lets every token pass
validate_token_open(bearer_token) == "Ok"

\* ZkBobCloud::validate_token
validate_token(bearer_token) ==
    IF admin_token # bearer_token THEN "AccessDenied" ELSE "Ok"

AdminResult(result, store, body) == [kind |-> "ok", result |-> result, store |-> store, body |-> body]

\* ZkBobCloud::new_account
new_account(store, id) ==
    IF id \in store.accounts
    THEN AdminResult("DuplicateAccountId", store, None)
    ELSE AdminResult("Ok", [store EXCEPT !.accounts = @ \cup {id}], Some(id))

\* ZkBobCloud::import_accounts
RECURSIVE import_accounts(_, _)
import_accounts(store, ids) ==
    IF ids = <<>> THEN AdminResult("Ok", store, None)
    ELSE LET made == new_account(store, Head(ids))
         IN IF made.result # "Ok" THEN AdminResult(made.result, made.store, None)
            ELSE import_accounts(made.store, Tail(ids))

\* ZkBobCloud::delete_account
delete_account(store, id) ==
    CASE id \notin store.accounts -> AdminResult("AccountNotFound", store, None)
      [] id \in store.accounts /\ id \in store.open -> AdminResult("AccountIsBusy", store, None)
      [] OTHER -> AdminResult("Ok", [store EXCEPT !.accounts = @ \ {id}], None)

\* ZkBobCloud::generate_report, the new uuid being one no report has
generate_report(store) ==
    LET id == CHOOSE r \in ReportIds : r \notin store.reports
    IN AdminResult("Ok", [store EXCEPT !.reports = @ \cup {id},
                                       !.report_queue = @ \cup {id}], Some(id))

\* the admin routes: validate_token first, then the operation
AdminRoute(req) ==
    LET store == req.store
        id == req.ids[1]
    IN IF validate_token(req.token) # "Ok"
       THEN AdminResult(validate_token(req.token), store, None)
       ELSE CASE req.route = "signup" -> new_account(store, id)
              [] req.route = "import" -> import_accounts(store, req.ids)
              [] req.route = "deleteAccount" -> delete_account(store, id)
              [] req.route = "accounts" -> AdminResult("Ok", store, Some(store.accounts))
              [] req.route = "transactionTrace" ->
                    IF req.transaction_id \in store.tasks
                    THEN AdminResult("Ok", store, Some(req.transaction_id))
                    ELSE AdminResult("InternalError", store, None)
              [] req.route = "export" ->
                    IF id \in store.accounts THEN AdminResult("Ok", store, Some(id))
                    ELSE AdminResult("AccountNotFound", store, None)
              [] req.route = "generateReport" -> generate_report(store)
              [] req.route = "report" ->
                    IF req.report \in store.reports
                    THEN AdminResult("Ok", store, Some(req.report))
                    ELSE AdminResult("ReportNotFound", store, None)
              [] req.route = "cleanReports" ->
                    AdminResult("Ok", [store EXCEPT !.reports = {}], None)

\* --------------------------------------------------------- report worker

\* the ids a message of the report queue may carry: the uuids of ReportIds
\* and one string that is no uuid
ReportMessages == ReportIds \cup {"not-a-uuid"}

\* Uuid::from_str succeeds
IsUuid(id) == id \in ReportIds

\* one message the report worker receives: the id it carries, the report task
\* row under that id if any, whether building the report fails and whether
\* the db accepts the save
ReportInputs ==
    { [kind |-> "report", id |-> id, task |-> t, fails |-> f, db_ok |-> ok] :
        id \in ReportMessages,
        t \in {None} \cup { Some([status |-> "New", attempt |-> a]) : a \in 0..max_attempts },
        f \in BOOLEAN, ok \in BOOLEAN }

\* report_worker.rs ProcessResult constructors
ReportDeleteFromQueue == [delete |-> TRUE, update |-> None]

ReportSuccess(task) ==
    [delete |-> TRUE, update |-> Some([task EXCEPT !.status = "Completed"])]

ReportErrorWithoutRetry(task) ==
    [delete |-> TRUE, update |-> Some([task EXCEPT !.status = "Failed"])]

ReportErrorWithRetryAttempts(task) ==
    IF task.attempt >= max_attempts THEN ReportErrorWithoutRetry(task)
    ELSE [delete |-> FALSE, update |-> Some([task EXCEPT !.attempt = @ + 1])]

\* report_worker.rs process
ReportProcess(msg) ==
    IF ~IsUuid(msg.id) THEN ReportDeleteFromQueue
    ELSE IF msg.task = None THEN ReportDeleteFromQueue
    ELSE IF msg.fails THEN ReportErrorWithRetryAttempts(msg.task[1])
    ELSE ReportSuccess(msg.task[1])

\* one round of the loop of run_report_worker: the task row as it is left in
\* the db and whether the message is still in the report queue
run_report_worker(msg) ==
    LET process_result == ReportProcess(msg)
    IN IF process_result.update # None
       THEN IF ~msg.db_ok
            THEN [kind |-> "ok", task |-> msg.task, queued |-> TRUE]
            ELSE [kind |-> "ok", task |-> process_result.update,
                  queued |-> ~process_result.delete]
       ELSE [kind |-> "ok", task |-> msg.task, queued |-> TRUE]

FnInputs ==
    HistoryInputs \cup RecordsInputs \cup ErrorInputs \cup StatusInputs \cup SyncInputs
        \cup AdminInputs \cup ReportInputs \cup ParseInputs

FnInit ==
    /\ PipelineIdle /\ RegistryIdle /\ CacheIdle /\ PlanIdle /\ SyncIdle
    /\ fnIn \in FnInputs
    /\ fnOut = NoPlan

\* HistoryTx::parse is called
HistoryCall ==
    /\ fnIn.kind = "history"
    /\ fnOut = NoPlan
    /\ fnOut' = HistoryParse(fnIn)
    /\ UNCHANGED fnIn
    /\ UNCHANGED notFn

\* the history route prepares the records of its response
RecordsCall ==
    /\ fnIn.kind = "records"
    /\ fnOut = NoPlan
    /\ fnOut' = [kind |-> "ok", records |-> prepare_records(fnIn.txs)]
    /\ UNCHANGED fnIn
    /\ UNCHANGED notFn

\* a route returns an error and actix asks for its status code
ErrorCall ==
    /\ fnIn.kind = "error"
    /\ fnOut = NoPlan
    /\ fnOut' = [kind |-> "ok", status |-> status_code(fnIn.error)]
    /\ UNCHANGED fnIn
    /\ UNCHANGED notFn

\* the transactionStatus route makes its response of the parts
StatusCall ==
    /\ fnIn.kind = "status"
    /\ fnOut = NoPlan
    /\ fnOut' = TransactionStatusResponse(fnIn.parts)
    /\ UNCHANGED fnIn
    /\ UNCHANGED notFn

\* an account is synced with a batch of the relayer
SyncCall ==
    /\ fnIn.kind = "sync"
    /\ fnOut = NoPlan
    /\ fnOut' = sync(fnIn)
    /\ UNCHANGED fnIn
    /\ UNCHANGED notFn

\* a request reaches an admin route
AdminCall ==
    /\ fnIn.kind = "admin"
    /\ fnOut = NoPlan
    /\ fnOut' = AdminRoute(fnIn)
    /\ UNCHANGED fnIn
    /\ UNCHANGED notFn

\* a batch of the relayer is parsed
ParseCall ==
    /\ fnIn.kind = "parse"
    /\ fnOut = NoPlan
    /\ fnOut' = parse_txs(fnIn.txs)
    /\ UNCHANGED fnIn
    /\ UNCHANGED notFn

\* the report worker handles one message of the report queue
ReportCall ==
    /\ fnIn.kind = "report"
    /\ fnOut = NoPlan
    /\ fnOut' = run_report_worker(fnIn)
    /\ UNCHANGED fnIn
    /\ UNCHANGED notFn

FnNext ==
    \/ HistoryCall
    \/ RecordsCall
    \/ ErrorCall
    \/ StatusCall
    \/ SyncCall
    \/ AdminCall
    \/ ReportCall
    \/ ParseCall

FnSpec == FnInit /\ [][FnNext]_vars

\* ------------------------------------------- concurrent syncs of an account

Syncers == 1..MaxSyncers

\* the pool mines one more record
SyncMine ==
    /\ mined < MaxMined
    /\ mined' = mined + 1
    /\ UNCHANGED <<acct, syncers>>
    /\ UNCHANGED notSync

\* Account::sync, first block: next_index is read under inner.read(), and
\* the lock is released
SyncRead(o) ==
    /\ syncers[o].pc = "idle"
    /\ syncers' = [syncers EXCEPT ![o] = [pc |-> "read", account_index |-> acct.next_index,
                                          txs |-> <<>>]]
    /\ UNCHANGED <<mined, acct>>
    /\ UNCHANGED notSync

\* Account::sync: relayer.info(), the limit, and relayer.transactions from
\* the index read before
SyncFetch(o) ==
    /\ syncers[o].pc = "read"
    /\ LET account_index == syncers[o].account_index
           relayer_index == mined * TxStep
           limit == (relayer_index - account_index) \div TxStep
       IN syncers' = [syncers EXCEPT ![o].pc = "fetched",
                                     ![o].txs = [j \in 1..limit |->
                                                    account_index + (j - 1) * TxStep]]
    /\ UNCHANGED <<mined, acct>>
    /\ UNCHANGED notSync

\* Account::sync: update_state applies the parsed batch under inner.write()
SyncUpdate(o) ==
    /\ syncers[o].pc = "fetched"
    /\ LET txs == syncers[o].txs
           indexes == { txs[j] : j \in 1..Len(txs) }
       IN acct' = [acct EXCEPT
                     !.next_index = update_state(@, ParseResult(<<>>, <<>>, txs)),
                     !.applied = [k \in 1..MaxMined |->
                                     IF (k - 1) * TxStep \in indexes THEN @[k] + 1 ELSE @[k]]]
    /\ syncers' = [syncers EXCEPT ![o].pc = "updated"]
    /\ UNCHANGED mined
    /\ UNCHANGED notSync

\* Account::sync: save_memos stores the memos of the batch, and sync returns
SyncSaveMemos(o) ==
    /\ syncers[o].pc = "updated"
    /\ acct' = [acct EXCEPT !.memos = @ \cup { syncers[o].txs[j] : j \in 1..Len(syncers[o].txs) }]
    /\ syncers' = [syncers EXCEPT ![o] = IdleSyncer]
    /\ UNCHANGED mined
    /\ UNCHANGED notSync

SyncInit == PipelineIdle /\ RegistryIdle /\ CacheIdle /\ PlanIdle /\ FnIdle /\ SyncIdle

SyncNext ==
    \/ SyncMine
    \/ \E o \in Syncers : SyncRead(o)
    \/ \E o \in Syncers : SyncFetch(o)
    \/ \E o \in Syncers : SyncUpdate(o)
    \/ \E o \in Syncers : SyncSaveMemos(o)

SyncSpec == SyncInit /\ [][SyncNext]_vars

\* ------------------------------------------------------- claim vocabulary

PartKeys == { k \in Keys : IsPart(db[k]) }

\* task m of the submit worker took a step (or was dropped by a restart)
SendStepped(m) ==
    m \in DOMAIN sendTasks /\ (m \notin DOMAIN sendTasks' \/ sendTasks'[m] # sendTasks[m])

StatusStepped(m) ==
    m \in DOMAIN statusTasks /\ (m \notin DOMAIN statusTasks' \/ statusTasks'[m] # statusTasks[m])

\* the step reported no error and the process did not restart
NoFaultStep == faults' = faults

MessagesFor(q, id) == { msg \in q : msg.id = id }

\* ---------------------------------------------------------------------- C1

\* a run that builds, proves, submits or is about to persist Relaying for a
\* part with a predecessor has read the predecessor as Mining or Done
C1_RunGate ==
    \A m \in DOMAIN sendTasks :
        LET t == sendTasks[m]
        IN (/\ t.part # NoRow
            /\ t.part.depends_on # NoKey
            /\ \/ t.pc = "build"
               \/ t.called # {}
               \/ t.result.update # NoRow /\ t.result.update.status = "Relaying")
           => t.pred \in {"Mining", "Done"}

\* a run that could not load its part knows no predecessor: it calls nothing,
\* writes nothing and only deletes its message
C1_Unloaded ==
    \A m \in DOMAIN sendTasks :
        LET t == sendTasks[m]
        IN t.part = NoRow =>
            t.pc = "delete" /\ t.result = SendDeleteFromQueue /\ t.called = {}

\* a run at the predecessor lookup while the predecessor is New or Relaying
\* either postpones (ends with no write, no enqueue, no delete, no call), or
\* its lookup fails and it goes on to persist a retry or a failure
C1_PostponeStep ==
    \A m \in DOMAIN sendTasks :
        LET t == sendTasks[m]
        IN (/\ t.pc = "depends"
            /\ IsPart(db[t.part.depends_on])
            /\ db[t.part.depends_on].status \in {"New", "Relaying"}
            /\ SendStepped(m))
           => /\ db' = db /\ sendQ' = sendQ /\ statusQ' = statusQ /\ jobs' = jobs
              /\ \/ m \notin DOMAIN sendTasks'
                 \/ /\ m \in DOMAIN sendTasks'
                    /\ ~NoFaultStep
                    /\ sendTasks'[m].pred = "Err"
                    /\ sendTasks'[m].pc = "save"
                    /\ sendTasks'[m].called = {}
                    /\ sendTasks'[m].result.update.status \in {"New", "Failed"}

C1_FrameStep ==
    \A k \in Keys :
        (/\ IsPart(db[k])
         /\ db[k].status = "New"
         /\ db[k].depends_on # NoKey
         /\ IsPart(db[db[k].depends_on])
         /\ db[db[k].depends_on].status \in {"New", "Relaying"})
        => /\ db'[k] = db[k]
           /\ MessagesFor(sendQ, k) \subseteq sendQ'

StatusChanges ==
    { <<"New", "Relaying">>, <<"Relaying", "Mining">>, <<"Mining", "Done">> }
        \cup { <<st, "Failed">> : st \in {"New", "Relaying", "Mining", "Done", "Failed"} }

C2_PersistStep ==
    \A k \in Keys :
        (IsPart(db[k]) /\ IsPart(db'[k]) /\ db'[k].status # db[k].status)
        => <<db[k].status, db'[k].status>> \in StatusChanges

LoadedChanges == StatusChanges \cup { <<"Relaying", "Done">> }

\* the version a task is about to write, against the version it loaded
C2_WriteOf(loaded, written) ==
    /\ written.id = loaded.id
    /\ \/ written.status = loaded.status
       \/ <<loaded.status, written.status>> \in LoadedChanges
    /\ ~is_final(loaded.status)

C2_WriteStep ==
    \A k \in Keys :
        (db'[k] # db[k])
        => \/ /\ \E c \in Calls : calls[c].pc = "checked" /\ calls'[c].pc = "enqueue"
              /\ db'[k].kind = "task" \/ (IsPart(db'[k]) /\ db'[k].status = "New")
           \/ \E m \in DOMAIN sendTasks :
                /\ sendTasks[m].pc = "save"
                /\ db'[k] = sendTasks[m].result.update
                /\ C2_WriteOf(sendTasks[m].part, db'[k])
           \/ \E m \in DOMAIN statusTasks :
                /\ statusTasks[m].pc = "save"
                /\ db'[k] = statusTasks[m].result.part
                /\ C2_WriteOf(statusTasks[m].part, db'[k])

C3_TerminalStep ==
    \A k \in Keys :
        (IsPart(db[k]) /\ is_final(db[k].status)) => db'[k].status = db[k].status

\* C3: once a part row is persisted Done or Failed no later write changes its status
C3_Original == [][C3_TerminalStep]_vars

\* ---------------------------------------------------------------------- C4

C4_FinalLoaded ==
    /\ \A m \in DOMAIN sendTasks :
         LET t == sendTasks[m]
         IN (t.part # NoRow /\ is_final(t.part.status))
            => t.pc = "delete" /\ t.called = {} /\ t.result = SendDeleteFromQueue
    /\ \A m \in DOMAIN statusTasks :
         LET t == statusTasks[m]
         IN (t.part # NoRow /\ is_final(t.part.status))
            => t.pc = "delete" /\ t.called = {} /\ t.result = StatusDeleteFromQueue

C4_FinalStep ==
    /\ \A m \in DOMAIN sendTasks :
         (sendTasks[m].part # NoRow /\ is_final(sendTasks[m].part.status) /\ SendStepped(m))
         => /\ db' = db /\ txIndex' = txIndex /\ statusQ' = statusQ /\ jobs' = jobs
            /\ m \notin DOMAIN sendTasks'
            /\ sendQ' = IF NoFaultStep THEN queue_delete(sendQ, m) ELSE sendQ
    /\ \A m \in DOMAIN statusTasks :
         (statusTasks[m].part # NoRow /\ is_final(statusTasks[m].part.status) /\ StatusStepped(m))
         => /\ db' = db /\ txIndex' = txIndex /\ sendQ' = sendQ /\ jobs' = jobs
            /\ m \notin DOMAIN statusTasks'
            /\ statusQ' = IF NoFaultStep THEN queue_delete(statusQ, m) ELSE statusQ

\* C4: a submit or confirm run that loads a part as Done or Failed writes no
\* row, calls neither the account engine nor the relayer, enqueues nothing and
\* only deletes its message
C4_Theorem == [](C4_FinalLoaded) /\ [][C4_FinalStep]_vars

\* C4 witness: the submit worker has loaded a part that is already final
C4_Witness ==
    \E m \in DOMAIN sendTasks :
        sendTasks[m].part # NoRow /\ is_final(sendTasks[m].part.status)

\* ---------------------------------------------------------------------- C5

\* C5: the task row and its part rows are present together or not at all, at
\* every point of every call, after a crash, and after a successful return
C5_Theorem ==
    /\ \A k \in Keys :
         db[k].kind = "task" =>
            \A i \in 1..Len(db[k].parts) : IsPart(db[db[k].parts[i]])
    /\ \A k \in Keys :
         IsPart(db[k]) => db[db[k].request_id].kind = "task"
    /\ \A c \in Calls :
         (calls[c].result = "Ok" \/ calls[c].pc = "enqueue") =>
            /\ db[calls[c].id].kind = "task"
            /\ \A i \in 0..(calls[c].n - 1) : IsPart(db[PartId(calls[c].id, i)])
    /\ \A c \in Calls :
         (calls[c].pc = "checked" /\ \A b \in Calls : b # c => calls[b].pc = "idle") =>
            \A k \in Keys : db[k] = NoRow

\* C5 witness: the process stopped inside transfer() after save_task: a task
\* of two parts is there, whole
C5_Witness ==
    \E c \in Calls :
        /\ calls[c].result = "Crashed"
        /\ db[calls[c].id].kind = "task"
        /\ Len(db[calls[c].id].parts) = 2

\* ---------------------------------------------------------------------- C6

InTransfer(rid) == \E c \in Calls : calls[c].id = rid /\ calls[c].pc \in {"checked", "enqueue"}

\* C6: outside a running transfer() every persisted New part has a message in
\* the submit queue and every Relaying or Mining part one in the submit or
\* the status queue
C6_Original ==
    \A k \in Keys :
        (IsPart(db[k]) /\ ~InTransfer(db[k].request_id)) =>
            /\ db[k].status = "New" => MessagesFor(sendQ, k) # {}
            /\ db[k].status \in {"Relaying", "Mining"} =>
                  MessagesFor(sendQ \cup statusQ, k) # {}

\* ---------------------------------------------------------------------- C7

\* transfer() returned Ok for the request the part belongs to
Accepted(k) ==
    /\ IsPart(db[k])
    /\ \E c \in Calls : calls[c].result = "Ok" /\ calls[c].id = db[k].request_id

\* C7: under fair redelivery and scheduling, with failures finite and the
\* relayer finishing every job, every part persisted by a successful
\* transfer() eventually has status Done or Failed
C7_Original ==
    \A k \in Keys : Accepted(k) ~> (IsPart(db[k]) /\ is_final(db[k].status))

\* ---------------------------------------------------------------------- C8

\* C8: of the transfer() calls with one request id at most one creates the task
C8_Original ==
    \A rid \in RequestIds :
        Cardinality({ c \in Calls : calls[c].id = rid /\ calls[c].result = "Ok" }) <= 1

\* ---------------------------------------------------------------------- C9

\* the key has a '.' somewhere
C9_Dotted(k) == "." \in { k[i] : i \in 1..Len(k) }

C9_Keys ==
    /\ \A c \in Calls :
         (calls[c].pc # "idle" /\ C9_Dotted(calls[c].id)) =>
            calls[c].pc = "done" /\ calls[c].result = "InvalidTransactionId"
    /\ \A k \in Keys : db[k].kind = "task" => ~C9_Dotted(k) /\ db[k].request_id = k
    /\ \A k \in Keys : IsPart(db[k]) => C9_Dotted(k) /\ db[k].id = k

C9_RejectStep ==
    \A c \in Calls, rid \in RequestIds :
        (/\ calls[c].pc = "idle"
         /\ calls'[c].pc # "idle"
         /\ calls'[c].id = rid
         /\ C9_Dotted(rid) \/ db[rid] # NoRow)
        => /\ calls'[c].pc = "done"
           /\ db' = db /\ sendQ' = sendQ
           /\ C9_Dotted(rid) => calls'[c].result = "InvalidTransactionId"
           /\ (~C9_Dotted(rid) /\ NoFaultStep) => calls'[c].result = "DuplicateTransactionId"

\* C9: transfer() rejects an id containing '.' with InvalidTransactionId and an
\* id whose task row exists with DuplicateTransactionId, writing and enqueuing
\* nothing; task rows sit only under dot-free keys and part rows only under
\* "<request_id>.<i>" keys
C9_Theorem == [](C9_Keys) /\ [][C9_RejectStep]_vars

\* C9 witness: one call was refused as a duplicate and one for its '.'
C9_Witness ==
    /\ \E c \in Calls : calls[c].result = "DuplicateTransactionId"
    /\ \E c \in Calls : calls[c].result = "InvalidTransactionId"

\* --------------------------------------------------------------------- C10

C10_Result ==
    \A m \in DOMAIN sendTasks :
        LET t == sendTasks[m]
        IN t.pred = "Failed" =>
            /\ t.pc \in {"save", "delete"}
            /\ t.called = {}
            /\ t.result.delete /\ ~t.result.check_status
            /\ t.result.update =
                 [t.part EXCEPT !.status = "Failed", !.err = "PreviousTxFailed"]
            /\ t.part.status = "New"

C10_Step ==
    \A m \in DOMAIN sendTasks :
        LET t == sendTasks[m]
        IN (t.pred = "Failed" /\ SendStepped(m) /\ NoFaultStep) =>
            /\ jobs' = jobs /\ statusQ' = statusQ
            /\ t.pc = "save" =>
                 /\ db' = save_part(db, [t.part EXCEPT !.status = "Failed",
                                                       !.err = "PreviousTxFailed"])
                 /\ db'[t.id].attempt = t.part.attempt
                 /\ m \in DOMAIN sendTasks' /\ sendTasks'[m].pc = "delete"
                 /\ sendQ' = sendQ
            /\ t.pc = "delete" =>
                 /\ db' = db
                 /\ sendQ' = queue_delete(sendQ, m)
                 /\ m \notin DOMAIN sendTasks'

\* C10: a submit run on a New part whose predecessor reads Failed persists the
\* part as Failed(PreviousTxFailed) with attempt unchanged, then deletes the
\* submit message, and calls neither the account engine nor the relayer
C10_Theorem == [](C10_Result) /\ [][C10_Step]_vars

\* C10 witness: a part has been persisted as Failed(PreviousTxFailed)
C10_Witness ==
    \E k \in Keys : IsPart(db[k]) /\ db[k].status = "Failed" /\ db[k].err = "PreviousTxFailed"

\* --------------------------------------------------------------------- C11

C11_Attempts == \A k \in Keys : IsPart(db[k]) => db[k].attempt <= max_attempts

\* what error_with_retry_attempts makes of the part a run loaded
C11_Retry(part, update, delete) ==
    IF part.attempt < max_attempts
    THEN update = [part EXCEPT !.attempt = part.attempt + 1] /\ ~delete
    ELSE /\ update.status = "Failed"
         /\ update.err \in {"DataBaseReadError", "AccountError", "ProveError", "RelayerSendError"}
         /\ [update EXCEPT !.status = part.status, !.err = part.err] = part
         /\ delete

\* a run in which the predecessor read, the account, the prover or the relayer
\* fails ends process() with the retry result, nothing written yet
C11_FailStep ==
    /\ \A m \in DOMAIN sendTasks :
         (/\ sendTasks[m].pc \in {"depends", "build"}
          /\ SendStepped(m) /\ ~NoFaultStep /\ m \in DOMAIN sendTasks')
         => /\ sendTasks'[m].pc = "save"
            /\ ~sendTasks'[m].result.check_status
            /\ C11_Retry(sendTasks[m].part, sendTasks'[m].result.update,
                          sendTasks'[m].result.delete)
            /\ db' = db /\ sendQ' = sendQ /\ statusQ' = statusQ
    /\ \A m \in DOMAIN statusTasks :
         (/\ statusTasks[m].pc = "job"
          /\ StatusStepped(m) /\ ~NoFaultStep /\ m \in DOMAIN statusTasks')
         => /\ statusTasks'[m].pc = "save"
            /\ ~statusTasks'[m].result.save_transaction_id
            /\ C11_Retry(statusTasks[m].part, statusTasks'[m].result.part,
                          statusTasks'[m].result.delete)
            /\ db' = db /\ sendQ' = sendQ /\ statusQ' = statusQ

\* the result is a retry of the loaded part: attempt + 1, nothing else changed
C11_IsRetry(part, update) == update = [part EXCEPT !.attempt = part.attempt + 1]

\* the result is the loaded part failed for good after its attempts
C11_IsExhausted(part, update) ==
    /\ part.attempt >= max_attempts
    /\ update.status = "Failed"
    /\ update.err \in {"DataBaseReadError", "AccountError", "ProveError", "RelayerSendError"}

\* the task then saves that result; a retry ends there with its message left in
\* the queue, an exhausted part goes on to delete its message
C11_SaveStep ==
    /\ \A m \in DOMAIN sendTasks :
         LET t == sendTasks[m]
         IN (t.pc = "save" /\ SendStepped(m) /\ NoFaultStep) =>
            /\ C11_IsRetry(t.part, t.result.update) =>
                 /\ db' = save_part(db, t.result.update)
                 /\ m \notin DOMAIN sendTasks'
                 /\ sendQ' = sendQ /\ statusQ' = statusQ
            /\ C11_IsExhausted(t.part, t.result.update) =>
                 /\ db' = save_part(db, t.result.update)
                 /\ m \in DOMAIN sendTasks' /\ sendTasks'[m].pc = "delete"
                 /\ sendQ' = sendQ /\ statusQ' = statusQ
    /\ \A m \in DOMAIN sendTasks :
         LET t == sendTasks[m]
         IN (/\ t.pc = "delete" /\ t.part # NoRow /\ t.result.update # NoRow
             /\ C11_IsExhausted(t.part, t.result.update)
             /\ SendStepped(m) /\ NoFaultStep) =>
            sendQ' = queue_delete(sendQ, m) /\ db' = db
    /\ \A m \in DOMAIN statusTasks :
         LET t == statusTasks[m]
         IN (t.pc = "save" /\ StatusStepped(m) /\ NoFaultStep) =>
            /\ C11_IsRetry(t.part, t.result.part) =>
                 /\ db' = save_part(db, t.result.part)
                 /\ m \notin DOMAIN statusTasks'
                 /\ sendQ' = sendQ /\ statusQ' = statusQ
            /\ C11_IsExhausted(t.part, t.result.part) =>
                 /\ db' = save_part(db, t.result.part)
                 /\ m \in DOMAIN statusTasks' /\ statusTasks'[m].pc = "delete"
                 /\ sendQ' = sendQ /\ statusQ' = statusQ
    /\ \A m \in DOMAIN statusTasks :
         LET t == statusTasks[m]
         IN (/\ t.pc = "delete" /\ t.part # NoRow /\ t.result.part # NoRow
             /\ C11_IsExhausted(t.part, t.result.part)
             /\ StatusStepped(m) /\ NoFaultStep) =>
            statusQ' = queue_delete(statusQ, m) /\ db' = db

\* every failed run counts: the row a retry persists has the attempt of the
\* row it replaces plus one, and that row's status
C11_CountStep ==
    /\ \A m \in DOMAIN sendTasks :
         LET t == sendTasks[m]
         IN (/\ t.pc = "save" /\ C11_IsRetry(t.part, t.result.update)
             /\ SendStepped(m) /\ NoFaultStep) =>
            /\ db'[t.id].attempt = db[t.id].attempt + 1
            /\ db'[t.id].status = db[t.id].status
    /\ \A m \in DOMAIN statusTasks :
         LET t == statusTasks[m]
         IN (/\ t.pc = "save" /\ C11_IsRetry(t.part, t.result.part)
             /\ StatusStepped(m) /\ NoFaultStep) =>
            /\ db'[t.id].attempt = db[t.id].attempt + 1
            /\ db'[t.id].status = db[t.id].status

\* the part of C11 that is about one run and the version it loaded: the retry
\* result, its save, the message kept or deleted, and attempt <= max_attempts
\* in every persisted row
C11_PerRun == [](C11_Attempts) /\ [][C11_FailStep /\ C11_SaveStep]_vars

\* C11: a retryable failure with attempt < max_attempts persists attempt + 1
\* with the status unchanged and keeps the message, with attempt >=
\* max_attempts it persists Failed and deletes the message; no persisted
\* attempt exceeds max_attempts; every failed run raises the persisted attempt
\* by one, so max_attempts + 1 failed runs of a stage end in Failed
C11_Original == [](C11_Attempts) /\ [][C11_FailStep /\ C11_SaveStep /\ C11_CountStep]_vars

\* --------------------------------------------------------------------- C12

\* the task holds the result of a successful submission of the part it loaded
C12_Submitted(t) ==
    /\ t.result.update # NoRow
    /\ t.result.update.status = "Relaying"

C12_Result ==
    \A m \in DOMAIN sendTasks :
        LET t == sendTasks[m]
        IN C12_Submitted(t) =>
            /\ t.result.update.job_id # NoJob
            /\ t.result.update =
                 [t.part EXCEPT !.status = "Relaying", !.job_id = t.result.update.job_id,
                                !.attempt = 0]
            /\ t.part.status = "New"
            /\ t.result.delete /\ t.result.check_status
            /\ t.pc \in {"save", "notify", "delete"}

C12_OrderStep ==
    \A m \in DOMAIN sendTasks :
        LET t == sendTasks[m]
        IN (C12_Submitted(t) /\ SendStepped(m)) =>
            /\ (t.pc = "save" /\ NoFaultStep) =>
                 /\ db' = save_part(db, t.result.update)
                 /\ statusQ' = statusQ /\ sendQ' = sendQ
                 /\ m \in DOMAIN sendTasks' /\ sendTasks'[m].pc = "notify"
            /\ (t.pc = "notify" /\ NoFaultStep) =>
                 /\ statusQ' = queue_send(statusQ, t.id)
                 /\ db' = db /\ sendQ' = sendQ
                 /\ m \in DOMAIN sendTasks' /\ sendTasks'[m].pc = "delete"
            /\ (t.pc = "delete" /\ NoFaultStep) =>
                 /\ sendQ' = queue_delete(sendQ, m)
                 /\ db' = db /\ statusQ' = statusQ
                 /\ m \notin DOMAIN sendTasks'
            /\ ~NoFaultStep =>
                 /\ db' = db /\ statusQ' = statusQ /\ sendQ' = sendQ
                 /\ m \notin DOMAIN sendTasks'

\* a status message appears only by a submit task that has saved the part with
\* a job_id or has loaded it with one
C12_EnqueueStep ==
    \A msg \in statusQ' \ statusQ :
        \E m \in DOMAIN sendTasks :
            LET t == sendTasks[m]
            IN /\ t.pc = "notify" /\ t.id = msg.id
               /\ IF t.result.update # NoRow
                  THEN t.result.update.job_id # NoJob
                  ELSE t.part.job_id # NoJob /\ t.part.status \in {"Relaying", "Mining"}

\* C12: after a successful submission the submit task saves the part as
\* Relaying with the returned job_id and attempt 0, then enqueues the id on
\* the status queue, then deletes the submit message; a failed save enqueues
\* and deletes nothing, a failed enqueue deletes nothing; a status message is
\* only ever added for a part already saved or loaded with a job_id
C12_Theorem == [](C12_Result) /\ [][C12_OrderStep /\ C12_EnqueueStep]_vars

\* C12 witness: the part is saved as Relaying with its job, its status message
\* is queued, and the task is about to delete the submit message
C12_Witness ==
    \E m \in DOMAIN sendTasks :
        /\ C12_Submitted(sendTasks[m])
        /\ sendTasks[m].pc = "delete"
        /\ db[sendTasks[m].id] = sendTasks[m].result.update
        /\ MessagesFor(statusQ, sendTasks[m].id) # {}

\* --------------------------------------------------------------------- C13

\* the tasks of one worker work on pairwise different parts
C13_OnePerPart(tasks) ==
    \A m1, m2 \in DOMAIN tasks : tasks[m1].id = tasks[m2].id => m1 = m2

\* C13: in each worker no two processing tasks run for the same part id at
\* the same time, whatever is enqueued, re-enqueued or delivered again
C13_Original == C13_OnePerPart(sendTasks) /\ C13_OnePerPart(statusTasks)

\* --------------------------------------------------------------------- C14

\* the confirm task m holds the result of a completed job reported with its hash
C14_Done(t) == t.result.part # NoRow /\ t.result.part.status = "Done"

\* the process stops in this step: every task of both workers is gone
C14_Stopped == ~NoFaultStep /\ sendTasks' = <<>> /\ statusTasks' = <<>>

\* the relayer's answer to task m: completed with a hash, or without one
C14_JobStep ==
    \A m \in DOMAIN statusTasks :
        LET t == statusTasks[m]
            j == t.part.job_id
        IN (t.pc = "job" /\ StatusStepped(m) /\ jobs[j] = "completed") =>
            /\ NoFaultStep =>
                 /\ m \in DOMAIN statusTasks'
                 /\ statusTasks'[m].pc = "save"
                 /\ statusTasks'[m].result.part =
                      [t.part EXCEPT !.status = "Done", !.tx_hash = j]
                 /\ statusTasks'[m].result.delete
                 /\ statusTasks'[m].result.save_transaction_id
            /\ (m \in DOMAIN statusTasks' /\ "no_tx_hash" \in statusTasks'[m].called) =>
                 /\ statusTasks'[m].pc = "save"
                 /\ statusTasks'[m].result.part.status # "Done"
                 /\ statusTasks'[m].result.part.tx_hash = t.part.tx_hash
                 /\ IF t.part.attempt < max_attempts
                    THEN /\ statusTasks'[m].result.part =
                              [t.part EXCEPT !.attempt = t.part.attempt + 1]
                         /\ ~statusTasks'[m].result.delete
                    ELSE /\ statusTasks'[m].result.part =
                              [t.part EXCEPT !.status = "Failed", !.err = "RelayerSendError"]
                         /\ statusTasks'[m].result.delete

\* what a task holding Done does: save, then the index write whose failure is
\* ignored, then the delete of its message
C14_PostStep ==
    \A m \in DOMAIN statusTasks :
        LET t == statusTasks[m]
        IN (C14_Done(t) /\ StatusStepped(m) /\ t.pc # "job") =>
            /\ t.pc \in {"save", "index", "delete"}
            /\ (t.pc = "save" /\ NoFaultStep) =>
                 /\ db' = save_part(db, t.result.part)
                 /\ m \in DOMAIN statusTasks' /\ statusTasks'[m].pc = "index"
                 /\ statusQ' = statusQ
            /\ (t.pc = "save" /\ ~NoFaultStep) =>
                 /\ db' = db /\ statusQ' = statusQ /\ m \notin DOMAIN statusTasks'
            /\ (t.pc = "index" /\ ~C14_Stopped) =>
                 /\ m \in DOMAIN statusTasks' /\ statusTasks'[m].pc = "delete"
                 /\ db' = db /\ statusQ' = statusQ
                 /\ NoFaultStep => txIndex' = txIndex \cup {t.result.part.tx_hash}
                 /\ ~NoFaultStep => txIndex' = txIndex
            /\ (t.pc = "delete" /\ NoFaultStep) =>
                 /\ statusQ' = queue_delete(statusQ, m)
                 /\ m \notin DOMAIN statusTasks'

\* a task that has not saved yet never holds a result that deletes its message
\* without the part being final
C14_KeepStep ==
    \A m \in DOMAIN statusTasks' :
        "no_tx_hash" \in statusTasks'[m].called => ~statusTasks'[m].result.delete

\* C14 (as stated): completed with a hash is saved as Done with that hash and
\* the status message deleted even when the index write fails; completed
\* without a hash never marks the part Done and keeps the message
C14_Original == [][C14_JobStep /\ C14_PostStep /\ C14_KeepStep]_vars

\* C14 (amended): completed with a hash is saved as Done with that hash and
\* the status message deleted even when the index write fails; completed
\* without a hash never marks the part Done: below max_attempts the attempt is
\* incremented and the message kept, at max_attempts the part becomes Failed
\* and the message is deleted
C14_Theorem == [][C14_JobStep /\ C14_PostStep]_vars

\* C14 witness: a task holding Done has passed a failed index write and is
\* about to delete its message, the part saved as Done with the hash
C14_Witness ==
    \E m \in DOMAIN statusTasks :
        /\ C14_Done(statusTasks[m])
        /\ statusTasks[m].pc = "delete"
        /\ db[statusTasks[m].id] = statusTasks[m].result.part
        /\ statusTasks[m].result.part.tx_hash \notin txIndex
        /\ faults > 0

\* --------------------------------------------------------------------- C15

\* an entry in the map belongs to an operation still holding the account or
\* to one whose cleanup task has not run yet
C15_Entry ==
    \A a \in AccountIds :
        accounts[a] # 0 => (\E o \in Ops : Holds(o, a)) \/ cleanups[a] > 0

\* a cleanup task that runs leaves no entry for its account, and every
\* operation that ends while holding an account leaves a cleanup task behind
C15_CleanupStep ==
    \A a \in AccountIds :
        /\ cleanups'[a] < cleanups[a] => accounts'[a] = 0
        /\ (\E o \in Ops : Holds(o, a) /\ ops'[o].pc = "done") => cleanups'[a] = cleanups[a] + 1

\* C15: once every operation that acquired an account through get_account
\* has finished, by success or by error, and the cleanup tasks have run, the
\* map holds no entry for the account unless an operation acquired it since
C15_Theorem == [](C15_Entry) /\ [][C15_CleanupStep]_vars

\* C15 witness: two operations held one account, one ended with a value and
\* one with an error, every cleanup task has run and the entry is gone
C15_Witness ==
    \E a \in AccountIds :
        /\ \E o1, o2 \in Ops :
              /\ ops[o1].pc = "done" /\ ops[o1].id = a /\ ops[o1].handle # 0
              /\ ops[o1].result = "Ok"
              /\ ops[o2].pc = "done" /\ ops[o2].id = a /\ ops[o2].handle # 0
              /\ ops[o2].result = "Err"
        /\ cleanups[a] = 0
        /\ accounts[a] = 0

\* --------------------------------------------------------------------- C16

\* C16: delete_account(id) returns AccountIsBusy and removes neither the
\* directory nor the row whenever some operation still holds a handle to the
\* account from get_account
C16_Original ==
    [][\A o \in Ops :
          (/\ ops[o].kind = "delete" /\ ops[o].pc = "read" /\ ops'[o].pc = "done"
           /\ \E h \in Ops : Holds(h, ops[o].id))
          => /\ ops'[o].result = "AccountIsBusy"
             /\ accountDirs' = accountDirs
             /\ accountRows' = accountRows]_vars

\* ------------------------------------------------- C17, C18, C19: vocabulary

\* transactions() returns in this step
TxReturns == txCall' # txCall /\ txCall'.pc = "returned"

\* the indexes of the records are offset, offset + TxStep, ... without a gap
Contiguous(offset, txs) ==
    \A k \in 1..Len(txs) : txs[k].index = offset + (k - 1) * TxStep

\* no mined record follows a pending one
MinedFirst(fetched) ==
    \A i, j \in 1..Len(fetched) : (i < j /\ fetched[j].flag = "1") => fetched[i].flag = "1"

\* what the relayer sends for the part of the range the cache did not cover
TxAnswer ==
    RelayerTransactions(pool, txCall'.offset + TxStep * Len(txCall'.cached),
                        txCall'.limit - Len(txCall'.cached))

\* what the relayer alone gives for the range: its records from offset, at
\* most limit, each with its own index, the pending ones left out on request
RelayerAlone(offset, limit, with_optimistic) ==
    LET first == (offset \div TxStep) + 1
        all == [k \in 1..Len(pool) |->
                  [index |-> (k - 1) * TxStep, tx_hash |-> pool[k].hash,
                   optimistic |-> pool[k].flag # "1"]]
        range == { k \in 1..Len(pool) : first <= k /\ k < first + limit }
        RECURSIVE Take(_)
        Take(k) == IF k \notin range THEN <<>>
                   ELSE IF with_optimistic \/ ~all[k].optimistic
                        THEN <<all[k]>> \o Take(k + 1)
                        ELSE Take(k + 1)
    IN Take(first)

\* --------------------------------------------------------------------- C17

\* C17 (as stated): for any offset, limit, cache and relayer answer,
\* transactions(offset, limit, false) returns records with the indexes
\* offset + k * TxStep, k = 0..n-1, strictly increasing and without gaps
C17_Original ==
    [][(TxReturns /\ ~txCall'.with_optimistic)
        => Contiguous(txCall'.offset, txCall'.result)]_vars

\* C17 (amended): the same, for every relayer answer in which no mined
\* record follows a pending one
C17_Theorem ==
    [][(TxReturns /\ ~txCall'.with_optimistic /\ MinedFirst(TxAnswer))
        => Contiguous(txCall'.offset, txCall'.result)]_vars

\* C17 witness: a call without pending records returned a cached record
\* followed by a fetched one and left a pending record of the range out
C17_Witness ==
    /\ txCall.pc = "returned"
    /\ ~txCall.with_optimistic
    /\ Len(txCall.cached) >= 1
    /\ Len(txCall.result) > Len(txCall.cached)
    /\ Len(txCall.result) < txCall.limit
    /\ Len(pool) = MaxPool
    /\ txCall.offset = 0

\* --------------------------------------------------------------------- C18

\* C18: after any sequence of transactions() calls the cache holds no record
\* with optimistic = true, and every record is stored under its own index
C18_Theorem ==
    \A k \in DOMAIN cache :
        cache[k] # NoTx => ~cache[k].optimistic /\ cache[k].index = k

\* C18 witness: a call returned a pending record and a mined one; the mined
\* one is in the cache and the pending one is not
C18_Witness ==
    /\ txCall.pc = "returned"
    /\ \E i, j \in 1..Len(txCall.result) :
          /\ txCall.result[i].optimistic
          /\ cache[txCall.result[i].index] = NoTx
          /\ ~txCall.result[j].optimistic
          /\ j > Len(txCall.cached)
          /\ cache[txCall.result[j].index] = txCall.result[j]

\* --------------------------------------------------------------------- C19

\* C19: whatever the cache holds, and also when the write to the cache
\* fails, transactions(offset, limit, with_optimistic) returns the records
\* the relayer alone gives for the range, mined records never changing
C19_Theorem ==
    [][TxReturns =>
         txCall'.result =
             RelayerAlone(txCall'.offset, txCall'.limit, txCall'.with_optimistic)]_vars

\* C19 witness: a call returned a cached record followed by a fetched mined
\* one whose write to the cache failed
C19_Witness ==
    /\ txCall.pc = "returned"
    /\ Len(txCall.cached) >= 1
    /\ \E k \in 1..Len(txCall.result) :
          /\ k > Len(txCall.cached)
          /\ ~txCall.result[k].optimistic
          /\ cache[txCall.result[k].index] = NoTx

\* --------------------------------------------------------------------- C20

\* the part amounts added up as Num<Fr>
RECURSIVE C20_Sum(_)
C20_Sum(parts) ==
    IF parts = <<>> THEN 0 ELSE NumAdd(C20_Sum(Tail(parts)), Head(parts).amount)

\* the last part names the receiver and carries the amount, no earlier part
\* names a receiver
C20_Shape ==
    planOut.kind = "ok" =>
        LET parts == planOut.parts
        IN /\ Len(parts) >= 1
           /\ parts[Len(parts)] = [to |-> "to", amount |-> planIn.amount]
           /\ \A i \in 1..(Len(parts) - 1) : parts[i].to = "None"

RECURSIVE C21_Value(_, _)
C21_Value(notes, S) ==
    IF S = {} THEN 0
    ELSE LET i == CHOOSE i \in S : TRUE IN notes[i] + C21_Value(notes, S \ {i})

\* some k and some set of at most 3k usable notes reach amount + (k+1) fee
\* together with the account balance
C21_Reachable ==
    \E k \in 0..MaxNotes, S \in SUBSET (1..Len(planIn.notes)) :
        /\ Cardinality(S) <= ChunkSize * k
        /\ C21_Value(planIn.notes, S) + planIn.balance >= planIn.amount + (k + 1) * planIn.fee

\* C21: whenever get_tx_parts fails it fails with InsufficientBalance, and
\* no k >= 0 and no set of at most 3k usable notes reach amount + (k+1) fee
\* together with the account balance
C21_Original ==
    planOut.kind = "err" => planOut.err = "InsufficientBalance" /\ ~C21_Reachable

\* --------------------------------------------------------------------- C22

\* C22 (as stated): with balance 40, three notes of 100 and fee 10, a
\* transfer of 150 is planned as (None, 90) and (Some(to), 150), and
\* calculate_fee returns transactionCount 2 and totalFee 20
C22_Original ==
    planIn = SeedInput =>
        /\ planOut # NoPlan =>
             planOut = [kind |-> "ok",
                        parts |-> <<[to |-> "None", amount |-> 90],
                                    [to |-> "to", amount |-> 150]>>]
        /\ planFee # NoPlan =>
             planFee = [kind |-> "ok", transactionCount |-> 2, totalFee |-> 20]

\* C22 (amended): with balance 40, three notes of 100 and fee 10, a transfer
\* of 150 is planned as the single part (Some(to), 150), and calculate_fee
\* returns transactionCount 1 and totalFee 10
C22_Theorem ==
    planIn = SeedInput =>
        /\ planOut # NoPlan =>
             planOut = [kind |-> "ok", parts |-> <<[to |-> "to", amount |-> 150]>>]
        /\ planFee # NoPlan =>
             planFee = [kind |-> "ok", transactionCount |-> 1, totalFee |-> 10]

\* C22 witness: the transfer of 150 has been planned and its fee calculated
\* on the seeded account
C22_Witness ==
    /\ planIn = SeedInput
    /\ planOut # NoPlan
    /\ planFee # NoPlan

\* --------------------------------------------------------------------- C23

\* C23: on the same balance, notes and fee, get_tx_parts(amount, fee, to)
\* succeeds exactly when amount <= max_transfer_amount(fee)
C23_Original ==
    (planOut # NoPlan /\ planMax # NoPlan) =>
        (planOut.kind = "ok" <=> planIn.amount <= planMax.amount)

\* --------------------------------------------------------------------- C24

\* the entries of the history made for the note with this index
C24_Entries(history, i) == { k \in 1..Len(history) : history[k].note = i }

C24_One(history, i, tx_type) ==
    /\ Cardinality(C24_Entries(history, i)) = 1
    /\ \A k \in C24_Entries(history, i) : history[k].tx_type = tx_type

\* C24: for a Transfer memo, a note index in both in_notes and out_notes
\* gives exactly one entry, a ReturnedChange, and no TransferIn or
\* TransferOut; an index only in in_notes gives one TransferIn, an index
\* only in out_notes one TransferOut
C24_Theorem ==
    (fnIn.kind = "history" /\ fnIn.tx_type = "Transfer" /\ fnOut.kind = "ok") =>
        \A i \in NoteIndexes :
            LET in == InSeq(fnIn.in_notes, i)
                out == InSeq(fnIn.out_notes, i)
            IN /\ (in /\ out) => C24_One(fnOut.history, i, "ReturnedChange")
               /\ (in /\ ~out) => C24_One(fnOut.history, i, "TransferIn")
               /\ (~in /\ out) => C24_One(fnOut.history, i, "TransferOut")
               /\ (~in /\ ~out) => C24_Entries(fnOut.history, i) = {}

\* C24 witness: a Transfer memo with a note that came back, a note received
\* and a note sent has been parsed
C24_Witness ==
    /\ fnIn.kind = "history" /\ fnIn.tx_type = "Transfer" /\ fnOut.kind = "ok"
    /\ \E i, j, k \in NoteIndexes :
          /\ InSeq(fnIn.in_notes, i) /\ InSeq(fnIn.out_notes, i)
          /\ InSeq(fnIn.in_notes, j) /\ ~InSeq(fnIn.out_notes, j)
          /\ ~InSeq(fnIn.in_notes, k) /\ InSeq(fnIn.out_notes, k)

\* --------------------------------------------------------------------- C25

\* the transactions of the call that are aggregates of transaction id t, by
\* position
C25_Aggregates(t) ==
    { k \in 1..Len(fnIn.txs) :
        fnIn.txs[k].tx_type = "AggregateNotes" /\ fnIn.txs[k].transaction_id = t }

\* the fees of the transactions at the positions S, added up
RECURSIVE C25_Fees(_)
C25_Fees(S) ==
    IF S = {} THEN 0
    ELSE LET k == CHOOSE k \in S : TRUE IN fnIn.txs[k].fee + C25_Fees(S \ {k})

\* the hashes a record lists, none when the field is left out
C25_Listed(r) ==
    IF r.linked_tx_hashes = None THEN {}
    ELSE { r.linked_tx_hashes[1][i] : i \in 1..Len(r.linked_tx_hashes[1]) }

\* C25: in the history response every transaction that is no aggregate has
\* exactly one record and no aggregate has one; a record with a transaction
\* id lists exactly the hashes of the aggregates with that transaction id
\* and its fee is its own fee plus theirs; the fee is left out for
\* TransferIn and DirectDeposit
C25_Theorem ==
    (fnIn.kind = "records" /\ fnOut # NoPlan) =>
        LET txs == fnIn.txs
            records == fnOut.records
        IN /\ \A k \in 1..Len(txs) :
                Cardinality({ i \in 1..Len(records) : records[i].tx_hash = txs[k].tx_hash })
                    = IF txs[k].tx_type = "AggregateNotes" THEN 0 ELSE 1
           /\ \A i \in 1..Len(records) :
                LET r == records[i]
                    tx == txs[r.tx_hash]
                    own == IF tx.transaction_id = None THEN {}
                           ELSE C25_Aggregates(tx.transaction_id)
                IN /\ r.tx_type = tx.tx_type
                   /\ r.transaction_id = tx.transaction_id
                   /\ C25_Listed(r) = own
                   /\ r.linked_tx_hashes # None => Len(r.linked_tx_hashes[1]) = Cardinality(own)
                   /\ r.fee = IF tx.tx_type \in {"TransferIn", "DirectDeposit"}
                              THEN None ELSE Some(tx.fee + C25_Fees(own))

\* C25 witness: a response with a record that absorbed an aggregate of its
\* own transaction id while an aggregate of another transaction id was left
\* to another record
C25_Witness ==
    /\ fnIn.kind = "records"
    /\ fnOut # NoPlan
    /\ \E i \in 1..Len(fnOut.records) :
          LET r == fnOut.records[i]
          IN /\ r.linked_tx_hashes # None
             /\ r.fee # None
             /\ \E k \in 1..Len(fnIn.txs) :
                   /\ fnIn.txs[k].tx_type = "AggregateNotes"
                   /\ fnIn.txs[k].transaction_id # None
                   /\ fnIn.txs[k].transaction_id # r.transaction_id

\* --------------------------------------------------------------------- C26

\* malformed input, unknown account, duplicate and invalid transaction id
C26_BadRequests ==
    {"BadRequest", "IncorrectAccountId", "AccountNotFound",
     "DuplicateTransactionId", "InvalidTransactionId"}

\* C26: the status code of an error is 400 for malformed input, unknown
\* account, duplicate transaction id and invalid transaction id, 401 for
\* access denied, and 500 for every other error (the unknown transaction of
\* a status request, which the statement does not place, is left open)
C26_Original ==
    (fnIn.kind = "error" /\ fnOut # NoPlan) =>
        CASE fnIn.error \in C26_BadRequests -> fnOut.status = 400
          [] fnIn.error = "AccessDenied" -> fnOut.status = 401
          [] fnIn.error = "TransactionNotFound" -> fnOut.status \in {400, 500}
          [] OTHER -> fnOut.status = 500

\* --------------------------------------------------------------------- C27

\* C27: an admin operation presented with a token other than the admin token
\* returns AccessDenied, changes no account, task, queue or report state and
\* returns nothing; AccessDenied is returned to no request with the admin
\* token
C27_Theorem ==
    (fnIn.kind = "admin" /\ fnOut # NoPlan) =>
        /\ fnIn.token # admin_token =>
              /\ fnOut.result = "AccessDenied"
              /\ fnOut.store = fnIn.store
              /\ fnOut.body = None
        /\ fnIn.token = admin_token => fnOut.result # "AccessDenied"

\* C27 witness: a deleteAccount of an account that could be deleted was
\* refused for its token and the account is still there
C27_Witness ==
    /\ fnIn.kind = "admin"
    /\ fnOut # NoPlan
    /\ fnIn.route = "deleteAccount"
    /\ fnIn.token = "Admin"
    /\ fnIn.ids[1] \in fnIn.store.accounts \ fnIn.store.open
    /\ fnOut.result = "AccessDenied"
    /\ fnIn.ids[1] \in fnOut.store.accounts

\* --------------------------------------------------------------------- C28

\* C28: for a transfer of a single part that has reached Done the status
\* response has status "Done", txHash equal to the part's tx hash, and no
\* linkedTxHashes field
C28_Original ==
    (/\ fnIn.kind = "status"
     /\ fnOut # NoPlan
     /\ Len(fnIn.parts) = 1
     /\ fnIn.parts[1].status = "Done") =>
        /\ fnOut.status = "Done"
        /\ fnOut.tx_hash = fnIn.parts[1].tx_hash
        /\ "linkedTxHashes" \notin Serialized(fnOut)

\* --------------------------------------------------------------------- C29

\* the worker runs on with the id of message m in its in-progress set and
\* the task that held it gone
C29_Stuck(tasks, m) == m \in DOMAIN tasks /\ tasks[m].pc = "panicked"

\* C29: a panic while a worker processes a message makes the process exit;
\* no worker runs on with the message unprocessed and its id left in the
\* in-progress set
C29_Original ==
    \A m \in MsgIds : ~C29_Stuck(sendTasks, m) /\ ~C29_Stuck(statusTasks, m)

\* the submit worker runs on after a panic with the message still in the
\* queue, which it will skip every time it receives it
C29_Stalled ==
    \E msg \in sendQ : C29_Stuck(sendTasks, msg.mid) /\ get_part(db, msg.id).status = "New"

\* --------------------------------------------------------------------- C30

\* the memo of the transaction is shorter than 4 bytes, or its prefix is not
\* delegated and greater than OUT + 1
C30_Fails(tx) == tx.len < 4 \/ (~tx.delegated /\ tx.num_items > TxStep)

C30_SomeFails == \E k \in 1..Len(fnIn.txs) : C30_Fails(fnIn.txs[k])

\* the sync applied no state update and saved no memo
C30_Nothing == fnOut.next_index = fnIn.next_index /\ fnOut.memos = <<>>

\* C30: if any record of the batch fails to parse, the call returns
\* StateSyncError and the sync applies no state update and saves no memo,
\* leaving next_index unchanged
C30_Original ==
    (fnIn.kind = "sync" /\ fnOut # NoPlan /\ C30_SomeFails) =>
        /\ fnOut.kind = "err" /\ fnOut.err = "StateSyncError"
        /\ C30_Nothing

\* whatever the sync returns for a batch with a failing record, it applied
\* no state update and saved no memo
C30_AllOrNothing ==
    (fnIn.kind = "sync" /\ fnOut # NoPlan /\ C30_SomeFails) => C30_Nothing

\* a batch whose first record was read through and whose second failed,
\* rejected as a whole
C30_Rejected ==
    /\ fnIn.kind = "sync"
    /\ fnOut # NoPlan
    /\ Len(fnIn.txs) = 2
    /\ fnIn.txs[1].mine /\ ~C30_Fails(fnIn.txs[1])
    /\ C30_Fails(fnIn.txs[2])
    /\ fnOut.kind = "err"
    /\ C30_Nothing

\* --------------------------------------------------------------------- C32

\* C32: at most one live Account instance exists for a uuid: the operations
\* holding a handle for one account all hold the same instance, and a
\* get_account while some operation holds the account returns that instance
C32_Original ==
    \A a \in AccountIds : \A o1, o2 \in Ops :
        (Holds(o1, a) /\ Holds(o2, a)) => ops[o1].handle = ops[o2].handle

\* --------------------------------------------------------------------- C35

\* nothing of request id rid is persisted or queued
C35_Clean(rid) ==
    /\ db'[rid].kind # "task"
    /\ \A i \in 0..(MaxParts - 1) :
          /\ get_part(db', PartId(rid, i)) = NoRow
          /\ MessagesFor(sendQ', PartId(rid, i)) = {}

\* C35: when transfer() returns an error, no task row and no part row of
\* the request id is persisted and none of its part ids is in the submit
\* queue (stated for a request id no other call has used)
C35_Original ==
    [][\A c \in Calls :
          (/\ calls[c].pc # "done"
           /\ calls'[c].pc = "done"
           /\ calls'[c].result \notin {"Ok", "Crashed"}
           /\ \A b \in Calls : b # c => calls[b].id # calls'[c].id)
          => C35_Clean(calls'[c].id)]_vars

\* --------------------------------------------------------------------- C34

\* C34: once the relayer has accepted a submission for a part the submit
\* worker never submits that part again; every job of the relayer comes
\* from one accepted submission, so the relayer never has more jobs than
\* there are parts
C34_Original == Len(jobs) <= Cardinality(PartKeys)

\* --------------------------------------------------------------------- C33

\* C33: in every persisted part row status New implies that job_id and
\* tx_hash are unset, Relaying or Mining that job_id is set, and Mining or
\* Done that tx_hash is set
C33_Theorem ==
    \A k \in PartKeys :
        /\ db[k].status = "New" => db[k].job_id = NoJob /\ db[k].tx_hash = NoJob
        /\ db[k].status \in {"Relaying", "Mining"} => db[k].job_id # NoJob
        /\ db[k].status \in {"Mining", "Done"} => db[k].tx_hash # NoJob

\* C33 witness: of one transfer the first part is persisted as Done and the
\* second as Mining or Relaying
C33_Witness ==
    \E k1, k2 \in PartKeys :
        /\ db[k2].depends_on = k1
        /\ db[k1].status = "Done"
        /\ db[k2].status \in {"Relaying", "Mining"}

\* --------------------------------------------------------------------- C36

\* Cloud::transfer_status: the part rows the task row under id lists, in
\* order, as the status response reads them; <<>> when the task or one of
\* its parts cannot be read
transfer_status(d, id) ==
    IF d[id].kind # "task" THEN <<>>
    ELSE IF \E k \in DOMAIN d[id].parts : get_part(d, d[id].parts[k]) = NoRow THEN <<>>
    ELSE [k \in DOMAIN d[id].parts |->
             LET part == get_part(d, d[id].parts[k])
             IN [status |-> part.status,
                 tx_hash |-> IF part.tx_hash = NoJob THEN None ELSE Some(part.tx_hash),
                 timestamp |-> k]]

\* C36: the aggregated status of a transfer is "Done" only when every one of
\* its parts is persisted as Done
C36_Original ==
    \A id \in RequestIds :
        LET parts == transfer_status(db, id)
        IN (parts # <<>> /\ StatusOf(parts).status = "Done")
               => \A k \in DOMAIN parts : parts[k].status = "Done"

\* --------------------------------------------------------------------- C37

\* C37: when the report worker has handled a message whose id is no uuid or
\* has no report task row, the message is no longer in the report queue
C37_Original ==
    (/\ fnIn.kind = "report"
     /\ fnOut # NoPlan
     /\ (~IsUuid(fnIn.id) \/ fnIn.task = None))
        => ~fnOut.queued

\* --------------------------------------------------------------------- C38

\* the notes of a sequence added up as integers
RECURSIVE C38_Sum(_)
C38_Sum(notes) == IF notes = <<>> THEN 0 ELSE Head(notes) + C38_Sum(Tail(notes))

\* the i-th chunk of the usable notes
C38_Chunk(notes, i) ==
    SubSeq(notes, (i - 1) * ChunkSize + 1,
           IF i * ChunkSize < Len(notes) THEN i * ChunkSize ELSE Len(notes))

\* the notes of the first n chunks
C38_Used(notes, n) ==
    SubSeq(notes, 1, IF n * ChunkSize < Len(notes) THEN n * ChunkSize ELSE Len(notes))

\* C38: in a plan get_tx_parts returns, every intermediate part comes of a
\* chunk whose notes add up to at least the fee and its amount is that sum
\* minus the fee as integers, and the balance plus the notes of the chunks
\* used is at least the amount plus one fee for each part
C38_Original ==
    planOut.kind = "ok" =>
        LET parts == planOut.parts
            K == Len(parts)
            used == IF planIn.balance >= NumAdd(planIn.amount, planIn.fee) THEN 0 ELSE K
        IN /\ \A i \in 1..(K - 1) :
                 /\ C38_Sum(C38_Chunk(planIn.notes, i)) >= planIn.fee
                 /\ parts[i].amount = C38_Sum(C38_Chunk(planIn.notes, i)) - planIn.fee
           /\ planIn.balance + C38_Sum(C38_Used(planIn.notes, used))
                 >= planIn.amount + K * planIn.fee

\* --------------------------------------------------------------------- C40

\* the records of the batch the sync applied to the account's state
C40_Applied ==
    { k \in 1..Len(fnIn.txs) : fnIn.txs[k].index < fnOut.next_index }

\* C40: after a sync call every record that was applied to the state and
\* yielded a decrypted memo has that memo stored
C40_Original ==
    (fnIn.kind = "sync" /\ fnOut # NoPlan) =>
        \A k \in C40_Applied :
            parse_tx(fnIn.txs[k]).decrypted_memos # <<>>
                => \E m \in 1..Len(fnOut.memos) : fnOut.memos[m] = fnIn.txs[k].index

\* --------------------------------------------------------------------- C39

\* how many entries of a sequence of indices are i
C39_Count(entries, i) == Cardinality({ k \in 1..Len(entries) : entries[k] = i })

\* C39: for every record of a batch parse_txs parsed, the state update has
\* exactly one entry keyed by its index, among new_leafs or new_commitments;
\* it is a commitment exactly when neither the account state nor a note of
\* the record belongs to the account; and the record has a decrypted memo
\* exactly when it has a leaf entry
C39_Theorem ==
    (fnIn.kind = "parse" /\ fnOut # NoPlan /\ fnOut.kind = "ok") =>
        \A k \in 1..Len(fnIn.txs) :
            LET tx == fnIn.txs[k]
                leafs == C39_Count(fnOut.new_leafs, tx.index)
                commitments == C39_Count(fnOut.new_commitments, tx.index)
                memos == C39_Count(fnOut.decrypted_memos, tx.index)
            IN /\ leafs + commitments = 1
               /\ commitments = 1 <=> (~tx.acc /\ ~tx.mine)
               /\ memos = leafs

\* C39 witness: a parsed batch of two records, one whose account state
\* decrypts while no note is the account's, one that is not the account's
C39_Witness ==
    /\ fnIn.kind = "parse" /\ fnOut # NoPlan /\ fnOut.kind = "ok"
    /\ Len(fnIn.txs) = 2
    /\ fnIn.txs[1].acc /\ ~fnIn.txs[1].mine
    /\ ~fnIn.txs[2].acc /\ ~fnIn.txs[2].mine
    /\ fnOut.new_leafs = <<fnIn.txs[1].index>>
    /\ fnOut.new_commitments = <<fnIn.txs[2].index>>

\* --------------------------------------------------------------------- C31

\* C31: however the syncs of one account interleave, every record the pool
\* mined is applied to the account's tree and notes at most once, exactly
\* once when next_index has passed it, and next_index is a multiple of
\* OUT + 1
C31_Original ==
    /\ \A k \in 1..MaxMined :
          /\ acct.applied[k] <= 1
          /\ k * TxStep <= acct.next_index => acct.applied[k] = 1
    /\ acct.next_index % TxStep = 0

====
